---------------------------- MODULE Spec2Model ----------------------------
(***************************************************************************)
(* A model of the pose-alignment scoring engine of the yoga practice       *)
(* application: the geometry primitives, the three keypoint normalizers,   *)
(* the tolerance scorers, the aggregators (calculatePoseAccuracy,          *)
(* calculatePoseAccuracyWithFeedback, comparePoses) and the per-frame      *)
(* entry point detectPose with its module-level state.                     *)
(*                                                                         *)
(* JavaScript numbers are IEEE doubles.  The model keeps them as fixed     *)
(* point integers with Unit steps per 1.0 (0.3 is 300, 180 degrees is      *)
(* 180000) and keeps the three non-finite doubles NaN, +Infinity and       *)
(* -Infinity as distinguished values, with the arithmetic the language     *)
(* defines for them (0/0 = NaN, x/0 = +-Infinity, Math.max(40, NaN) = NaN, *)
(* every comparison with NaN false).                                       *)
(***************************************************************************)
EXTENDS Integers, Sequences, FiniteSets, TLC

(***************************************************************************)
(* Numbers                                                                 *)
(***************************************************************************)
Unit == 1000
NaN == 2100000000
PInf == 2000000000
NInf == -2000000000

IsNaN(a) == a = NaN
IsInf(a) == a = PInf \/ a = NInf
IsFinite(a) == ~IsNaN(a) /\ ~IsInf(a)

\* n / d rounded to the nearest integer, halves away from zero (d > 0)
RoundDiv(n, d) ==
    IF n >= 0 THEN (n + d \div 2) \div d ELSE -(((-n) + d \div 2) \div d)

Sign(a) == IF a > 0 THEN 1 ELSE IF a < 0 THEN -1 ELSE 0

FNeg(a) ==
    IF IsNaN(a) THEN NaN
    ELSE IF a = PInf THEN NInf
    ELSE IF a = NInf THEN PInf
    ELSE -a

FAdd(a, b) ==
    IF IsNaN(a) \/ IsNaN(b) THEN NaN
    ELSE IF IsInf(a) /\ IsInf(b) THEN (IF a = b THEN a ELSE NaN)
    ELSE IF IsInf(a) THEN a
    ELSE IF IsInf(b) THEN b
    ELSE a + b

FSub(a, b) == FAdd(a, FNeg(b))

FMul(a, b) ==
    IF IsNaN(a) \/ IsNaN(b) THEN NaN
    ELSE IF IsInf(a) \/ IsInf(b)
         THEN (IF a = 0 \/ b = 0 THEN NaN
               ELSE IF Sign(a) * Sign(b) > 0 THEN PInf ELSE NInf)
    ELSE RoundDiv(a * b, Unit)

FDiv(a, b) ==
    IF IsNaN(a) \/ IsNaN(b) THEN NaN
    ELSE IF IsInf(a) /\ IsInf(b) THEN NaN
    ELSE IF IsInf(a) THEN (IF Sign(a) * (IF b < 0 THEN -1 ELSE 1) > 0 THEN PInf ELSE NInf)
    ELSE IF IsInf(b) THEN 0
    ELSE IF b = 0 THEN (IF a = 0 THEN NaN ELSE IF a > 0 THEN PInf ELSE NInf)
    ELSE IF b > 0 THEN RoundDiv(a * Unit, b)
    ELSE -RoundDiv(a * Unit, -b)

FAbs(a) == IF IsNaN(a) THEN NaN ELSE IF IsInf(a) THEN PInf ELSE IF a < 0 THEN -a ELSE a

\* comparisons: false as soon as one side is NaN
FLt(a, b) == ~IsNaN(a) /\ ~IsNaN(b) /\ a < b
FLe(a, b) == ~IsNaN(a) /\ ~IsNaN(b) /\ a <= b
FGt(a, b) == FLt(b, a)
FGe(a, b) == FLe(b, a)

\* Math.max / Math.min: NaN as soon as one argument is NaN
FMax(a, b) == IF IsNaN(a) \/ IsNaN(b) THEN NaN ELSE IF a >= b THEN a ELSE b
FMin(a, b) == IF IsNaN(a) \/ IsNaN(b) THEN NaN ELSE IF a <= b THEN a ELSE b

\* Math.pow(a, 2)
FSquare(a) == FMul(a, a)

\* Math.round: to the nearest integer, halves up
FRound(a) == IF ~IsFinite(a) THEN a ELSE ((a + Unit \div 2) \div Unit) * Unit

RECURSIVE SqrtSearch(_, _, _)
SqrtSearch(n, lo, hi) ==
    IF lo >= hi THEN lo
    ELSE LET mid == (lo + hi + 1) \div 2
         IN  IF mid * mid <= n THEN SqrtSearch(n, mid, hi)
             ELSE SqrtSearch(n, lo, mid - 1)

\* Math.sqrt
FSqrt(a) ==
    IF IsNaN(a) \/ a = NInf THEN NaN
    ELSE IF a = PInf THEN PInf
    ELSE IF a < 0 THEN NaN
    ELSE SqrtSearch(a * Unit, 0, 46340)

\* e^n for the whole part n of an exponent: scaled by Unit for n >= 0 and by
\* Unit * Unit for n < 0 (e^n is below one Unit * Unit-th under n = -14)
ExpWhole(n) ==
    CASE n = 0 -> 1000 [] n = 1 -> 2718 [] n = 2 -> 7389 [] n = 3 -> 20086
      [] n = 4 -> 54598 [] n = 5 -> 148413 [] n = 6 -> 403429
      [] n = -1 -> 367879 [] n = -2 -> 135335 [] n = -3 -> 49787
      [] n = -4 -> 18316 [] n = -5 -> 6738 [] n = -6 -> 2479
      [] n = -7 -> 912 [] n = -8 -> 335 [] n = -9 -> 123 [] n = -10 -> 45
      [] n = -11 -> 17 [] n = -12 -> 6 [] n = -13 -> 2 [] n = -14 -> 1
      [] n < -14 -> 0

\* e^f for 0 <= f < 1, by its Taylor series
ExpFraction(f) ==
    LET t1 == f
        t2 == (t1 * f) \div (2 * Unit)
        t3 == (t2 * f) \div (3 * Unit)
        t4 == (t3 * f) \div (4 * Unit)
        t5 == (t4 * f) \div (5 * Unit)
        t6 == (t5 * f) \div (6 * Unit)
    IN  Unit + t1 + t2 + t3 + t4 + t5 + t6

\* Math.exp
FExp(a) ==
    IF IsNaN(a) THEN NaN
    ELSE IF a = PInf THEN PInf
    ELSE IF a = NInf THEN 0
    ELSE LET n == a \div Unit
             f == a - n * Unit
         IN  IF n >= 0 THEN RoundDiv(ExpWhole(n) * ExpFraction(f), Unit)
             ELSE RoundDiv(ExpWhole(n) * ExpFraction(f), Unit * Unit)

\* atan(r) in degrees for 0 <= r <= 1: exact at 0 and at 1
AtanDeg(r) ==
    LET corr == 14020 + RoundDiv(3799 * r, Unit)
    IN  45 * r + RoundDiv(RoundDiv(r * (Unit - r), Unit) * corr, Unit)

\* Math.atan2(y, x) * 180 / Math.PI, in (-180, 180]
FAtan2Deg(y, x) ==
    LET FirstQuadrant(ay, ax) ==
            IF ay <= ax THEN AtanDeg(RoundDiv(ay * Unit, ax))
            ELSE 90 * Unit - AtanDeg(RoundDiv(ax * Unit, ay))
        InQuadrant(base) ==
            (IF y >= 0 THEN 1 ELSE -1) * (IF x >= 0 THEN base ELSE 180 * Unit - base)
    IN  IF IsNaN(y) \/ IsNaN(x) THEN NaN
        ELSE IF IsInf(y) /\ IsInf(x)
             THEN (IF x = PInf THEN 45 * Unit ELSE 135 * Unit) * Sign(y)
        ELSE IF IsInf(y) THEN 90 * Unit * Sign(y)
        ELSE IF x = PInf THEN 0
        ELSE IF x = NInf THEN (IF y >= 0 THEN 180 * Unit ELSE -180 * Unit)
        ELSE IF x = 0 /\ y = 0 THEN 0
        ELSE InQuadrant(FirstQuadrant(IF y < 0 THEN -y ELSE y, IF x < 0 THEN -x ELSE x))


(***************************************************************************)
(* State                                                                   *)
(*   op, args, ret: the operation last run, its arguments and what it      *)
(*   returned; now .. previousKeypoints: the clock and the module-level    *)
(*   state of poseDetection.ts; page: the state of the practice session    *)
(*   component of PoseLibrary.tsx; pump: the detection effect of           *)
(*   PracticePage.tsx and the frame loops it has started; practice: the    *)
(*   sessions kept by PracticeProvider.                                    *)
(***************************************************************************)
VARIABLES op, args, ret, now, lastProcessedTime, keypointHistory, previousKeypoints, page, pump,
          practice

call == <<op, args, ret>>
engine == <<now, lastProcessedTime, keypointHistory, previousKeypoints>>
pages == <<page, pump, practice>>
vars == <<op, args, ret, now, lastProcessedTime, keypointHistory, previousKeypoints, page, pump,
          practice>>

\* previousKeypoints before the first scored frame (null, which is not [])
Null == [isNull |-> TRUE, keypoints |-> <<>>]
NoArgs == [none |-> TRUE]
NoRet == [none |-> TRUE]

\* poseDetection.ts as loaded: nothing processed, no history, no previous frame
EngineInit ==
    /\ now = 0
    /\ lastProcessedTime = 0
    /\ keypointHistory = <<>>
    /\ previousKeypoints = Null

\* the useState initial values of the practice session component of
\* PoseLibrary.tsx; starting counts the handleStartSession runs that wait for
\* the camera, pending the startPoseDetection callbacks that are queued
PageMounted ==
    [isSessionStarted |-> FALSE, isPaused |-> FALSE, confidenceHistory |-> <<>>,
     stableScore |-> 0, isStable |-> FALSE, currentScore |-> 0,
     starting |-> 0, pending |-> 0]

\* PracticePage before recording: the detection effect has started no loop
PumpIdle == [isRecording |-> FALSE, loops |-> <<>>]

\* currentSession when no session is open (null)
NoSession == [active |-> FALSE, accuracyHistory |-> <<>>, averageAccuracy |-> 0]

\* PracticeProvider as mounted, for a user with nothing saved
ProviderMounted == [currentSession |-> NoSession, sessions |-> <<>>]

PagesInit ==
    /\ page = PageMounted
    /\ pump = PumpIdle
    /\ practice = ProviderMounted

(***************************************************************************)
(* Tolerance scorers                                                       *)
(***************************************************************************)
\* a scorer that is Gaussian around the target with no full-credit band
calculateAngleAccuracy_noBand(actual, target, tolerance) ==
    FMax(100, FExp(FMul(-300, FSquare(FDiv(FAbs(FSub(actual, target)), tolerance)))))

calculateAngleAccuracy(actual, target, tolerance) ==
    LET Of(diff) ==
            IF FLe(diff, tolerance) THEN Unit
            ELSE FMax(100, FExp(FMul(-300, FSquare(FDiv(FSub(diff, tolerance), tolerance)))))
    IN  Of(FAbs(FSub(actual, target)))

calculateJointAccuracy(actual, target, tolerance) ==
    LET Of(diff) ==
            IF FLe(diff, tolerance) THEN Unit
            ELSE FExp(FMul(-500, FSquare(FDiv(FSub(diff, tolerance), tolerance))))
    IN  Of(FAbs(FSub(actual, target)))

(***************************************************************************)
(* Keypoints: {name, x, y, score}.  A score of 0 stands for every falsy    *)
(* score (0 or undefined): the code only ever tests `kp.score &&` or       *)
(* `kp.score || 0`.                                                        *)
(***************************************************************************)
Kp(name, x, y, score) == [name |-> name, x |-> x, y |-> y, score |-> score]

\* what Array.prototype.find returns when nothing matches, and keypoints[i]
\* past the end of the list
Undefined == [name |-> "undefined", x |-> NaN, y |-> NaN, score |-> 0]

RECURSIVE FindFrom(_, _, _)
FindFrom(kps, name, i) ==
    IF i > Len(kps) THEN Undefined
    ELSE IF kps[i].name = name THEN kps[i]
    ELSE FindFrom(kps, name, i + 1)

\* keypoints.find(kp => kp.name === name)
Find(kps, name) == FindFrom(kps, name, 1)

\* name.includes(sub) for the names and the substrings the code asks for
NameIncludes(name, sub) ==
    \/ name = sub
    \/ <<name, sub>> \in
         { <<"left_shoulder", "shoulder">>, <<"right_shoulder", "shoulder">>,
           <<"shoulders", "shoulder">>,
           <<"left_hip", "hip">>, <<"right_hip", "hip">>, <<"hips", "hip">>,
           <<"left_knee", "knee">>, <<"right_knee", "knee">>, <<"knees", "knee">>,
           <<"left_ankle", "ankle">>, <<"right_ankle", "ankle">>,
           <<"ankles", "ankle">> }

RECURSIVE FindIncludesFrom(_, _, _)
FindIncludesFrom(kps, sub, i) ==
    IF i > Len(kps) THEN Undefined
    ELSE IF NameIncludes(kps[i].name, sub) THEN kps[i]
    ELSE FindIncludesFrom(kps, sub, i + 1)

\* keypoints.find(kp => kp.name?.toLowerCase().includes(joint.toLowerCase()))
FindIncludes(kps, sub) == FindIncludesFrom(kps, sub, 1)

\* keypoints.filter(kp => kp.name?.includes(sub))
FilterIncludes(kps, sub) == SelectSeq(kps, LAMBDA kp : NameIncludes(kp.name, sub))

\* keypoints[i] with the code's 0-based index
At(kps, i) == IF i + 1 <= Len(kps) THEN kps[i + 1] ELSE Undefined

(***************************************************************************)
(* Geometry primitives                                                     *)
(***************************************************************************)
\* the angle at b without the fold of reflex angles
AngleAt_noFold(a, b, c) ==
    FAbs(FSub(FAtan2Deg(FSub(c.y, b.y), FSub(c.x, b.x)),
              FAtan2Deg(FSub(a.y, b.y), FSub(a.x, b.x))))

\* the three statements the three calculateAngle variants share
AngleAt(a, b, c) ==
    LET Fold(angle) == IF FGt(angle, 180 * Unit) THEN FSub(360 * Unit, angle) ELSE angle
    IN  Fold(FAbs(FSub(FAtan2Deg(FSub(c.y, b.y), FSub(c.x, b.x)),
                       FAtan2Deg(FSub(a.y, b.y), FSub(a.x, b.x)))))

\* poseDetection.ts: a missing point gives 0
calculateAngle(pointA, pointB, pointC) ==
    IF pointA = Undefined \/ pointB = Undefined \/ pointC = Undefined THEN 0
    ELSE AngleAt(pointA, pointB, pointC)

\* referenceImages.ts and poseComparison.ts: reading .y of a missing point
\* is a TypeError, which the callers' results carry as threw
calculateAngle_ref(a, b, c) == AngleAt(a, b, c)
calculateAngle_cmp(a, b, c) == AngleAt(a, b, c)

\* poseComparison.ts
calculateDistance(a, b) ==
    FSqrt(FAdd(FSquare(FSub(b.x, a.x)), FSquare(FSub(b.y, a.y))))

(***************************************************************************)
(* Feedback messages: the text, and the values a template interpolates     *)
(***************************************************************************)
Msg(text) == [text |-> text, pose |-> "", joint |-> "", dir |-> "", by |-> 0]
JointMsg(text, joint) == [text |-> text, pose |-> "", joint |-> joint, dir |-> "", by |-> 0]

\* array.slice(0, n)
Slice(seq, n) == IF Len(seq) <= n THEN seq ELSE SubSeq(seq, 1, n)

\* whether seq holds the same element twice
HasDuplicates(seq) == \E i, j \in 1..Len(seq) : i < j /\ seq[i] = seq[j]

(***************************************************************************)
(* Keypoint normalizers                                                    *)
(***************************************************************************)
\* referenceImages.ts: centre on the shoulders and hips, scale by the
\* shoulder distance
normalizeKeypoints_ref(keypoints) ==
    LET Scaled(centerX, centerY, bodySize) ==
            [i \in 1..Len(keypoints) |->
               [keypoints[i] EXCEPT !.x = FDiv(FSub(@, centerX), bodySize),
                                    !.y = FDiv(FSub(@, centerY), bodySize)]]
        Centered(shoulders, hips) ==
            IF Len(shoulders) < 2 \/ Len(hips) < 2 THEN keypoints
            ELSE Scaled(FDiv(FAdd(FAdd(FAdd(shoulders[1].x, shoulders[2].x),
                                       hips[1].x), hips[2].x), 4 * Unit),
                        FDiv(FAdd(FAdd(FAdd(shoulders[1].y, shoulders[2].y),
                                       hips[1].y), hips[2].y), 4 * Unit),
                        FSqrt(FAdd(FSquare(FSub(shoulders[2].x, shoulders[1].x)),
                                   FSquare(FSub(shoulders[2].y, shoulders[1].y)))))
    IN  Centered(FilterIncludes(keypoints, "shoulder"), FilterIncludes(keypoints, "hip"))

RECURSIVE FoldMin(_, _, _, _)
\* forEach(kp => { if (kp[c] < m) m = kp[c] }); the new m is bound as the
\* element of a set, so that it is a value before the next keypoint is visited
FoldMin(keypoints, c, i, m) ==
    IF i > Len(keypoints) THEN m
    ELSE CHOOSE min \in
             {FoldMin(keypoints, c, i + 1, next) :
                next \in {IF FLt(keypoints[i][c], m) THEN keypoints[i][c] ELSE m}} : TRUE

RECURSIVE FoldMax(_, _, _, _)
FoldMax(keypoints, c, i, m) ==
    IF i > Len(keypoints) THEN m
    ELSE CHOOSE max \in
             {FoldMax(keypoints, c, i + 1, next) :
                next \in {IF FGt(keypoints[i][c], m) THEN keypoints[i][c] ELSE m}} : TRUE

\* poseDetection.ts: scale the bounding box to the unit square
normalizeKeypoints(keypoints) ==
    LET Scaled(minX, minY, scale) ==
            [i \in 1..Len(keypoints) |->
               [keypoints[i] EXCEPT !.x = FDiv(FSub(@, minX), scale),
                                    !.y = FDiv(FSub(@, minY), scale)]]
        Boxed(minX, minY, maxX, maxY) ==
            Scaled(minX, minY, FMax(FSub(maxX, minX), FSub(maxY, minY)))
    IN  Boxed(FoldMin(keypoints, "x", 1, PInf), FoldMin(keypoints, "y", 1, PInf),
              FoldMax(keypoints, "x", 1, NInf), FoldMax(keypoints, "y", 1, NInf))

\* poseComparison.ts: centre on the hips (keypoints[11], keypoints[12]), scale
\* by the nose (keypoints[0]) to hip-centre distance.  Reading .x of a
\* keypoint past the end of the list is a TypeError.
normalizeKeypoints_cmp(keypoints) ==
    LET Scaled(hipCenter, bodySize) ==
            [i \in 1..Len(keypoints) |->
               [keypoints[i] EXCEPT !.x = FDiv(FSub(@, hipCenter.x), bodySize),
                                    !.y = FDiv(FSub(@, hipCenter.y), bodySize)]]
        Centered(hipCenter) ==
            Scaled(hipCenter, calculateDistance(At(keypoints, 0), hipCenter))
    IN  IF At(keypoints, 11) = Undefined \/ At(keypoints, 12) = Undefined
           \/ At(keypoints, 0) = Undefined
        THEN [threw |-> TRUE, keypoints |-> <<>>]
        ELSE [threw |-> FALSE,
              keypoints |->
                Centered([x |-> FDiv(FAdd(At(keypoints, 11).x, At(keypoints, 12).x), 2 * Unit),
                          y |-> FDiv(FAdd(At(keypoints, 11).y, At(keypoints, 12).y), 2 * Unit)])]

(***************************************************************************)
(* Pose profiles                                                           *)
(***************************************************************************)
\* mapPoseId (the same table in the three files)
mapPoseId(poseId) ==
    CASE poseId = "standing-forward-bend" -> "Standing_Forward_Bend"
      [] poseId = "lotus" -> "Lotus_Pose"
      [] poseId = "tree" -> "Tree_Pose"
      [] poseId = "headstand" -> "Headstand"
      [] poseId = "corpse" -> "Corpse_Pose"
      [] OTHER -> poseId

AngleConfig(name, joints, target, tolerance, weight, feedback) ==
    [name |-> name, joints |-> joints, target |-> target * Unit,
     tolerance |-> tolerance * Unit, weight |-> weight, feedback |-> feedback]

\* referenceImages.ts: POSE_CONFIGS, the feedback text beside its angle
POSE_CONFIGS ==
    [Standing_Forward_Bend |->
       << AngleConfig("spine", <<"shoulders", "hips", "knees">>, 90, 15, 2000,
                      "Fold forward from your hips, keeping your spine long"),
          AngleConfig("legs", <<"hips", "knees", "ankles">>, 180, 10, 1500,
                      "Keep your legs straight or slightly bent") >>,
     Lotus_Pose |->
       << AngleConfig("spine", <<"shoulders", "hips", "knees">>, 180, 10, 2000,
                      "Keep your spine straight and tall"),
          AngleConfig("hips", <<"left_hip", "right_hip", "knees">>, 45, 15, 1500,
                      "Open your hips and cross your legs comfortably") >>,
     Tree_Pose |->
       << AngleConfig("standing_leg", <<"hip", "knee", "ankle">>, 180, 8, 2000,
                      "Keep your standing leg strong and straight"),
          AngleConfig("bent_knee", <<"hip", "knee", "foot">>, 45, 10, 1500,
                      "Open your hip and place your foot against your inner thigh") >>,
     Headstand |->
       << AngleConfig("body_line", <<"hips", "shoulders", "elbows">>, 180, 10, 2000,
                      "Keep your body in a straight line"),
          AngleConfig("legs", <<"ankles", "knees", "hips">>, 180, 8, 1500,
                      "Point your toes up towards the ceiling") >>,
     Corpse_Pose |->
       << AngleConfig("body_alignment", <<"shoulders", "hips", "ankles">>, 180, 10, 1000,
                      "Keep your body relaxed and symmetrical"),
          AngleConfig("arms", <<"shoulders", "elbows", "wrists">>, 15, 10, 1000,
                      "Let your arms rest slightly away from your body") >>]

(***************************************************************************)
(* referenceImages.ts: calculatePoseAccuracy                               *)
(***************************************************************************)
\* a point that counts when it was not found
Usable_absent(p) == p = Undefined

\* p && p.score && p.score > 0.3
Usable(p) == p # Undefined /\ p.score # 0 /\ FGt(p.score, 300)

\* one pass of config.angles.forEach: the accumulators after angle i
RECURSIVE AngleLoop(_, _, _, _)
AngleLoop(normalizedKeypoints, angles, i, acc) ==
    LET Scored(angle, accuracy) ==
            [totalWeightedAccuracy |->
                FAdd(acc.totalWeightedAccuracy, FMul(accuracy, angle.weight)),
             totalWeight |-> acc.totalWeight + angle.weight,
             validAngles |-> acc.validAngles + 1,
             feedback |-> IF FLt(accuracy, 700)
                          THEN Append(acc.feedback, Msg(angle.feedback))
                          ELSE acc.feedback]
        Visit(angle, point1, point2, point3) ==
            IF Usable(point1) /\ Usable(point2) /\ Usable(point3)
            THEN Scored(angle,
                        calculateAngleAccuracy(calculateAngle_ref(point1, point2, point3),
                                               angle.target, angle.tolerance))
            ELSE [acc EXCEPT !.feedback =
                    Append(@, JointMsg("Move closer to the camera to detect alignment",
                                       angle.name))]
    IN  IF i > Len(angles) THEN acc
        ELSE AngleLoop(normalizedKeypoints, angles, i + 1,
                       Visit(angles[i],
                             FindIncludes(normalizedKeypoints, angles[i].joints[1]),
                             FindIncludes(normalizedKeypoints, angles[i].joints[2]),
                             FindIncludes(normalizedKeypoints, angles[i].joints[3])))

\* the overall message unshifted onto the feedback
OverallMessage(validAngles, nAngles, scaledAccuracy) ==
    IF 2 * validAngles < nAngles
    THEN Msg("Move closer to the camera for better pose detection")
    ELSE IF FLt(scaledAccuracy, 30 * Unit) THEN Msg("Focus on the basic alignment of the pose")
    ELSE IF FLt(scaledAccuracy, 60 * Unit) THEN Msg("Keep adjusting to find better alignment")
    ELSE IF FLt(scaledAccuracy, 85 * Unit) THEN Msg("Good form! Make small refinements")
    ELSE Msg("Excellent form! Maintain your stability")

\* feedback.slice(0, 3)
PoseAccuracyFeedback(feedback) == Slice(feedback, 3)

\* the total divided by the number of measured angles, whatever their weights
rawAccuracy_perAngle(acc) ==
    IF acc.validAngles > 0 THEN FDiv(acc.totalWeightedAccuracy, acc.validAngles * Unit) ELSE 0

\* rawAccuracy = totalWeight > 0 ? totalWeightedAccuracy / totalWeight : 0
rawAccuracy(acc) ==
    IF acc.totalWeight > 0 THEN FDiv(acc.totalWeightedAccuracy, acc.totalWeight) ELSE 0

calculatePoseAccuracy(keypoints, poseType) ==
    LET Result(acc, nAngles, raw, scaledAccuracy) ==
            [accuracy |-> scaledAccuracy,
             feedback |-> PoseAccuracyFeedback(
                             <<OverallMessage(acc.validAngles, nAngles, scaledAccuracy)>>
                             \o acc.feedback),
             validAngles |-> acc.validAngles, rawAccuracy |-> raw, known |-> TRUE]
        Scaled(acc, nAngles, raw, minAccuracy, sigmoid) ==
            Result(acc, nAngles, raw,
                   FMax(minAccuracy,
                        FMin(99 * Unit,
                             FRound(FAdd(minAccuracy,
                                         FMul(FSub(99 * Unit, minAccuracy), sigmoid))))))
        Raw(acc, nAngles, raw) ==
            Scaled(acc, nAngles, raw, FMax(5 * Unit, acc.validAngles * 5 * Unit),
                   FDiv(Unit, FAdd(Unit, FExp(FMul(-8 * Unit, FSub(raw, 500))))))
        Totalled(acc, nAngles) == Raw(acc, nAngles, rawAccuracy(acc))
        Known(angles) ==
            Totalled(AngleLoop(normalizeKeypoints_ref(keypoints), angles, 1,
                               [totalWeightedAccuracy |-> 0, totalWeight |-> 0,
                                validAngles |-> 0, feedback |-> <<>>]),
                     Len(angles))
    IN  IF mapPoseId(poseType) \notin DOMAIN POSE_CONFIGS
        THEN [accuracy |-> 0, feedback |-> <<Msg("Unknown pose type")>>,
              validAngles |-> 0, rawAccuracy |-> 0, known |-> FALSE]
        ELSE Known(POSE_CONFIGS[mapPoseId(poseType)])

(***************************************************************************)
(* poseComparison.ts: comparePoses                                         *)
(***************************************************************************)
\* poseAngles: the joint triples and target angles of each pose type
poseAngles ==
    [Standing_Forward_Bend |->
       [joints |-> << <<"shoulders", "hips", "knees">>, <<"hips", "knees", "ankles">> >>,
        targetAngles |-> <<90, 180>>],
     Lotus_Pose |->
       [joints |-> << <<"left_hip", "left_knee", "left_ankle">>,
                      <<"right_hip", "right_knee", "right_ankle">> >>,
        targetAngles |-> <<45, 45>>],
     Tree_Pose |->
       [joints |-> << <<"left_hip", "left_knee", "left_ankle">>,
                      <<"right_shoulder", "right_hip", "right_knee">>,
                      <<"left_shoulder", "left_hip", "left_knee">> >>,
        targetAngles |-> <<180, 180, 180>>],
     Headstand |->
       [joints |-> << <<"shoulders", "elbows", "wrists">>, <<"hips", "shoulders", "elbows">> >>,
        targetAngles |-> <<90, 180>>],
     Corpse_Pose |->
       [joints |-> << <<"shoulders", "hips", "ankles">>, <<"shoulders", "elbows", "wrists">> >>,
        targetAngles |-> <<180, 15>>]]

\* the switch on mappedPoseType and joint2 under `angleAccuracy < 0.7`
JointFeedback(mappedPoseType, joint2) ==
    CASE mappedPoseType = "Standing_Forward_Bend" /\ joint2 = "knees" ->
           <<Msg("Bend your knees as if sitting in a chair")>>
      [] mappedPoseType = "Standing_Forward_Bend" /\ joint2 = "hips" ->
           <<Msg("Keep your spine straight, chest lifted")>>
      [] mappedPoseType = "Lotus_Pose" /\ joint2 \in {"left_hip", "right_hip"} ->
           <<Msg("Keep your legs straight and open")>>
      [] mappedPoseType = "Tree_Pose" /\ joint2 = "right_hip" ->
           <<Msg("Keep your standing leg straight and strong")>>
      [] mappedPoseType = "Tree_Pose" /\ joint2 = "left_hip" ->
           <<Msg("Turn your bent knee out to the side more")>>
      [] mappedPoseType = "Headstand" /\ joint2 = "shoulders" ->
           <<Msg("Keep your shoulders relaxed and level")>>
      [] mappedPoseType = "Corpse_Pose" /\ joint2 \in {"hips", "shoulders"} ->
           <<Msg("Keep your body in a straight line")>>
      [] OTHER -> <<>>

\* Math.max(0, 1 - angleDiff / 90)
AngleAccuracy(userAngle, targetAngle) ==
    FMax(0, FSub(Unit, FDiv(FAbs(FSub(userAngle, targetAngle)), 90 * Unit)))

RECURSIVE JointSetLoop(_, _, _, _, _)
JointSetLoop(normalizedUserPose, mappedPoseType, config, i, acc) ==
    LET Scored(joint2, angleAccuracy) ==
            [threw |-> FALSE,
             jointAccuracies |->
                Append(acc.jointAccuracies, [joint |-> joint2, score |-> angleAccuracy]),
             totalAccuracy |-> FAdd(acc.totalAccuracy, angleAccuracy),
             angleCount |-> acc.angleCount + 1,
             feedback |-> IF FLt(angleAccuracy, 700)
                          THEN acc.feedback \o JointFeedback(mappedPoseType, joint2)
                          ELSE acc.feedback]
        Visit(jointSet, targetAngle, point1, point2, point3) ==
            IF point1 = Undefined \/ point2 = Undefined \/ point3 = Undefined
            THEN [acc EXCEPT !.threw = TRUE]
            ELSE Scored(jointSet[2],
                        AngleAccuracy(calculateAngle_cmp(point1, point2, point3),
                                      targetAngle * Unit))
    IN  IF i > Len(config.joints) \/ acc.threw THEN acc
        ELSE JointSetLoop(normalizedUserPose, mappedPoseType, config, i + 1,
                          Visit(config.joints[i], config.targetAngles[i],
                                Find(normalizedUserPose, config.joints[i][1]),
                                Find(normalizedUserPose, config.joints[i][2]),
                                Find(normalizedUserPose, config.joints[i][3])))

Threw == [threw |-> TRUE, accuracy |-> 0, jointAccuracies |-> <<>>, feedback |-> <<>>]

comparePoses(userKeypoints, targetKeypoints, poseType) ==
    LET General(finalAccuracy) ==
            IF FLt(finalAccuracy, 50 * Unit)
            THEN Msg("Try to match the reference pose more closely")
            ELSE IF FLt(finalAccuracy, 80 * Unit)
            THEN Msg("Getting better! Focus on the specific alignment cues")
            ELSE Msg("Great form! Hold the pose and breathe deeply")
        Result(acc, finalAccuracy) ==
            [threw |-> FALSE, accuracy |-> finalAccuracy,
             jointAccuracies |-> acc.jointAccuracies,
             feedback |-> <<General(finalAccuracy)>> \o acc.feedback]
        Totalled(acc) ==
            IF acc.threw THEN Threw
            ELSE Result(acc, IF acc.angleCount > 0
                             THEN FMul(FDiv(acc.totalAccuracy, acc.angleCount * Unit),
                                       100 * Unit)
                             ELSE 0)
        Start == [threw |-> FALSE, jointAccuracies |-> <<>>, totalAccuracy |-> 0,
                  angleCount |-> 0, feedback |-> <<>>]
        Compared(mappedPoseType, normalizedUserPose, normalizedTargetPose) ==
            IF normalizedUserPose.threw \/ normalizedTargetPose.threw THEN Threw
            ELSE IF mappedPoseType \in DOMAIN poseAngles
            THEN Totalled(JointSetLoop(normalizedUserPose.keypoints, mappedPoseType,
                                       poseAngles[mappedPoseType], 1, Start))
            ELSE Totalled(Start)
    IN  Compared(mapPoseId(poseType), normalizeKeypoints_cmp(userKeypoints),
                 normalizeKeypoints_cmp(targetKeypoints))

(***************************************************************************)
(* poseDetection.ts: smoothing                                             *)
(***************************************************************************)
PROCESS_INTERVAL == 100
MAX_HISTORY == 8

\* keypointHistory after smoothKeypoints has pushed keypoints
\* a history that only grows
Pushed_unbounded(history, keypoints) == Append(history, keypoints)

\* keypointHistory after the shift and the push of smoothKeypoints
Pushed(history, keypoints) ==
    Append(IF Len(history) >= MAX_HISTORY THEN Tail(history) ELSE history, keypoints)

RECURSIVE WeightedSum(_, _, _, _)
\* keypointHistory2D.forEach over the samples h.. of point index: the sums
\* after the last sample
WeightedSum(history, index, h, sum) ==
    LET Add(historical, weight) ==
            [x |-> FAdd(sum.x, FMul(historical.x, weight)),
             y |-> FAdd(sum.y, FMul(historical.y, weight)),
             score |-> FMax(sum.score, historical.score),
             totalWeight |-> FAdd(sum.totalWeight, weight)]
    IN  IF h > Len(history) THEN sum
        ELSE WeightedSum(history, index, h + 1,
                         Add(history[h][index], FExp(-500 * (Len(history) - h))))

\* smoothKeypoints throws a TypeError: with 3 samples or more it reads
\* history[index].x in every sample, and a sample shorter than keypoints has
\* no such entry (history is keypointHistory after the push)
SmoothThrows(history, keypoints) ==
    /\ Len(history) >= 3
    /\ \E h \in DOMAIN history : Len(history[h]) < Len(keypoints)

\* an average taken from the first sample on
Smoothed_fromFirst(history, keypoints) ==
    [index \in 1..Len(keypoints) |->
        [keypoints[index] EXCEPT
           !.x = FDiv(WeightedSum(history, index, 1,
                                  [x |-> 0, y |-> 0, score |-> 0, totalWeight |-> 0]).x,
                      WeightedSum(history, index, 1,
                                  [x |-> 0, y |-> 0, score |-> 0, totalWeight |-> 0]).totalWeight)]]

\* what smoothKeypoints returns once keypoints is the last entry of history
Smoothed(history, keypoints) ==
    LET Averaged(keypoint, sum) ==
            [keypoint EXCEPT !.x = FDiv(sum.x, sum.totalWeight),
                             !.y = FDiv(sum.y, sum.totalWeight),
                             !.score = sum.score]
    IN  IF Len(history) < 3 THEN keypoints
        ELSE [index \in 1..Len(keypoints) |->
                Averaged(keypoints[index],
                         WeightedSum(history, index, 1,
                                     [x |-> 0, y |-> 0, score |-> 0, totalWeight |-> 0]))]

(***************************************************************************)
(* poseDetection.ts: joint angles and joint scores                         *)
(***************************************************************************)
POSE_GUIDANCE ==
    [x \in {"standing-forward-bend", "lotus", "tree", "headstand", "corpse"} |->
       CASE x = "standing-forward-bend" ->
              << [joint |-> "spine", target |-> 90, tolerance |-> 15],
                 [joint |-> "knees", target |-> 165, tolerance |-> 10],
                 [joint |-> "hips", target |-> 90, tolerance |-> 15],
                 [joint |-> "shoulders", target |-> 180, tolerance |-> 15],
                 [joint |-> "neck", target |-> 45, tolerance |-> 10] >>
         [] x = "lotus" ->
              << [joint |-> "spine", target |-> 180, tolerance |-> 10],
                 [joint |-> "hips", target |-> 45, tolerance |-> 15],
                 [joint |-> "knees", target |-> 30, tolerance |-> 15],
                 [joint |-> "shoulders", target |-> 180, tolerance |-> 10],
                 [joint |-> "neck", target |-> 180, tolerance |-> 10] >>
         [] x = "tree" ->
              << [joint |-> "standing_leg", target |-> 175, tolerance |-> 5],
                 [joint |-> "raised_knee", target |-> 90, tolerance |-> 15],
                 [joint |-> "hips", target |-> 180, tolerance |-> 10],
                 [joint |-> "spine", target |-> 180, tolerance |-> 5],
                 [joint |-> "shoulders", target |-> 180, tolerance |-> 10] >>
         [] x = "headstand" ->
              << [joint |-> "forearms", target |-> 90, tolerance |-> 10],
                 [joint |-> "shoulders", target |-> 90, tolerance |-> 10],
                 [joint |-> "spine", target |-> 180, tolerance |-> 5],
                 [joint |-> "hips", target |-> 180, tolerance |-> 10],
                 [joint |-> "legs", target |-> 180, tolerance |-> 10] >>
         [] x = "corpse" ->
              << [joint |-> "spine", target |-> 180, tolerance |-> 5],
                 [joint |-> "shoulders", target |-> 180, tolerance |-> 10],
                 [joint |-> "hips", target |-> 180, tolerance |-> 10],
                 [joint |-> "legs", target |-> 180, tolerance |-> 10],
                 [joint |-> "neck", target |-> 180, tolerance |-> 5] >>]

\* POSE_GUIDANCE[poseType]?.alignment, empty when there is no guidance
Alignment(poseType) ==
    IF poseType \in DOMAIN POSE_GUIDANCE THEN POSE_GUIDANCE[poseType] ELSE <<>>

\* a point the code builds between or beside keypoints
Built(name, x, y) == [name |-> name, x |-> x, y |-> y, score |-> Unit]

MidOf(name, a, b) ==
    Built(name, FDiv(FAdd(a.x, b.x), 2 * Unit), FDiv(FAdd(a.y, b.y), 2 * Unit))

\* the keypoints a case of calculateJointAngle reads
JointPointNames(joint) ==
    CASE joint = "spine" ->
           <<"nose", "left_shoulder", "right_shoulder", "left_hip", "right_hip">>
      [] joint \in {"knees", "legs"} ->
           <<"left_hip", "left_knee", "left_ankle", "right_hip", "right_knee", "right_ankle">>
      [] joint = "hips" -> <<"left_shoulder", "right_shoulder", "left_hip", "right_hip">>
      [] joint = "shoulders" -> <<"left_shoulder", "right_shoulder", "nose">>
      [] joint = "neck" -> <<"nose", "left_shoulder", "right_shoulder">>
      [] joint = "standing_leg" -> <<"left_hip", "left_knee", "left_ankle">>
      [] joint = "raised_knee" -> <<"right_hip", "right_knee", "right_ankle">>
      [] joint = "forearms" ->
           <<"left_shoulder", "left_elbow", "left_wrist",
             "right_shoulder", "right_elbow", "right_wrist">>
      [] OTHER -> <<>>

\* the triples whose angles the case measures, p being the points of
\* JointPointNames(joint) in order
JointTriples(joint, p) ==
    CASE joint = "spine" ->
           << <<p[1], MidOf("mid_shoulder", p[2], p[3]), MidOf("mid_hip", p[4], p[5])>> >>
      [] joint \in {"knees", "legs", "forearms"} ->
           << <<p[1], p[2], p[3]>>, <<p[4], p[5], p[6]>> >>
      [] joint = "hips" ->
           << <<MidOf("mid_shoulder", p[1], p[2]), MidOf("mid_hip", p[3], p[4]),
                Built("mid_base", FDiv(FAdd(p[3].x, p[4].x), 2 * Unit),
                      FAdd(FDiv(FAdd(p[3].y, p[4].y), 2 * Unit), 500))>> >>
      [] joint = "shoulders" -> << <<p[1], p[3], p[2]>> >>
      [] joint = "neck" ->
           << <<Built("top_head", p[1].x, FSub(p[1].y, 300)), p[1],
                MidOf("mid_shoulder", p[2], p[3])>> >>
      [] joint \in {"standing_leg", "raised_knee"} -> << <<p[1], p[2], p[3]>> >>

\* a result of calculateJointAngle: null, or an angle
NullAngle == [isNull |-> TRUE, angle |-> 0]

calculateJointAngle(keypoints, joint) ==
    LET Measured(triples) ==
            IF Len(triples) = 1
            THEN calculateAngle(triples[1][1], triples[1][2], triples[1][3])
            ELSE FDiv(FAdd(calculateAngle(triples[1][1], triples[1][2], triples[1][3]),
                           calculateAngle(triples[2][1], triples[2][2], triples[2][3])),
                      2 * Unit)
        OfPoints(p) ==
            IF Len(p) = 0 \/ \E k \in 1..Len(p) : p[k] = Undefined \/ p[k].score = 0
            THEN NullAngle
            ELSE [isNull |-> FALSE, angle |-> Measured(JointTriples(joint, p))]
    IN  OfPoints([k \in 1..Len(JointPointNames(joint)) |->
                    Find(keypoints, JointPointNames(joint)[k])])

\* joint.split('_')[0]
FirstWord(joint) ==
    CASE joint = "standing_leg" -> "standing"
      [] joint = "raised_knee" -> "raised"
      [] OTHER -> joint

RECURSIVE SumScores(_, _)
\* reduce((sum, kp) => sum + (kp.score || 0), 0) over kps[i..]
SumScores(kps, i) ==
    IF i > Len(kps) THEN 0 ELSE FAdd(kps[i].score, SumScores(kps, i + 1))

calculateJointStability(keypoints, joint) ==
    LET Average(relevantPoints) ==
            IF Len(relevantPoints) = 0 THEN 0
            ELSE FDiv(SumScores(relevantPoints, 1), Len(relevantPoints) * Unit)
    IN  Average(SelectSeq(keypoints,
                          LAMBDA kp : NameIncludes(kp.name, FirstWord(joint))
                                      /\ kp.score # 0 /\ FGt(kp.score, 300)))

\* generalJoints, in declaration order
generalJoints ==
    << [joint |-> "spine_alignment", points |-> <<"nose", "left_shoulder", "left_hip">>],
       [joint |-> "shoulder_alignment", points |-> <<"left_shoulder", "right_shoulder">>],
       [joint |-> "hip_alignment", points |-> <<"left_hip", "right_hip">>],
       [joint |-> "left_arm", points |-> <<"left_shoulder", "left_elbow", "left_wrist">>],
       [joint |-> "right_arm", points |-> <<"right_shoulder", "right_elbow", "right_wrist">>],
       [joint |-> "left_leg", points |-> <<"left_hip", "left_knee", "left_ankle">>],
       [joint |-> "right_leg", points |-> <<"right_hip", "right_knee", "right_ankle">>] >>

\* an entry of the scores object: its key is joint for a general joint and
\* `${poseType}_${joint}` for a pose-specific one
JointScore(pose, joint, score, currentAngle, targetAngle, tolerance) ==
    [pose |-> pose, joint |-> joint, score |-> score, currentAngle |-> currentAngle,
     targetAngle |-> targetAngle, tolerance |-> tolerance]

\* the body of the generalJoints loop for one joint whose points all pass
\* `point && point.score && point.score > 0.3`
GeneralJointScore(joint, p) ==
    LET Limb(currentAngle, targetAngle, tolerance) ==
            JointScore("", joint,
                       calculateJointAccuracy(currentAngle, targetAngle, tolerance),
                       currentAngle, targetAngle, tolerance)
        ByAngle(currentAngle) ==
            IF joint = "spine_alignment"
            THEN JointScore("", joint,
                            FMax(0, FSub(Unit, FDiv(FAbs(FSub(180 * Unit, currentAngle)),
                                                    45 * Unit))),
                            currentAngle, 180 * Unit, 15 * Unit)
            ELSE IF joint \in {"left_leg", "right_leg"}
            THEN Limb(currentAngle, 170 * Unit, 20 * Unit)
            ELSE Limb(currentAngle, 160 * Unit, 30 * Unit)
    IN  IF joint \in {"shoulder_alignment", "hip_alignment"}
        THEN JointScore("", joint,
                        FMax(0, FSub(Unit, FAbs(FSub(p[1].y, p[2].y)))),
                        FAtan2Deg(FAbs(FSub(p[2].y, p[1].y)), FAbs(FSub(p[2].x, p[1].x))),
                        0, 10 * Unit)
        ELSE ByAngle(calculateAngle(p[1], p[2], p[3]))

RECURSIVE GeneralScores(_, _)
GeneralScores(keypoints, i) ==
    LET Entry(joint, p) ==
            IF \A k \in 1..Len(p) : Usable(p[k]) THEN <<GeneralJointScore(joint, p)>>
            ELSE <<>>
    IN  IF i > Len(generalJoints) THEN <<>>
        ELSE Entry(generalJoints[i].joint,
                   [k \in 1..Len(generalJoints[i].points) |->
                      Find(keypoints, generalJoints[i].points[k])])
             \o GeneralScores(keypoints, i + 1)

\* the body of the poseGuidance.alignment loop for a joint with an angle
PoseJointScore(poseType, guide, actualAngle, stability) ==
    JointScore(poseType, guide.joint,
               FMin(Unit, FAdd(calculateJointAccuracy(actualAngle, guide.target * Unit,
                                                      guide.tolerance * Unit),
                               FMul(stability, 100))),
               actualAngle, guide.target * Unit, guide.tolerance * Unit)

RECURSIVE PoseScores(_, _, _)
PoseScores(keypoints, poseType, i) ==
    LET Entry(guide, actualAngle) ==
            IF actualAngle.isNull THEN <<>>
            ELSE <<PoseJointScore(poseType, guide, actualAngle.angle,
                                  calculateJointStability(keypoints, guide.joint))>>
    IN  IF i > Len(Alignment(poseType)) THEN <<>>
        ELSE Entry(Alignment(poseType)[i],
                   calculateJointAngle(keypoints, Alignment(poseType)[i].joint))
             \o PoseScores(keypoints, poseType, i + 1)

calculateJointScores(keypoints, poseType) ==
    GeneralScores(keypoints, 1) \o PoseScores(keypoints, poseType, 1)

(***************************************************************************)
(* poseDetection.ts: calculatePoseAccuracyWithFeedback                     *)
(***************************************************************************)
\* KEYPOINT_WEIGHTS[name], 0.5 for a name that is not in the table
KEYPOINT_WEIGHTS(name) ==
    CASE name = "nose" -> 500
      [] name \in {"left_eye", "right_eye"} -> 300
      [] name \in {"left_ear", "right_ear"} -> 200
      [] name \in {"left_shoulder", "right_shoulder", "left_knee", "right_knee"} -> 800
      [] name \in {"left_elbow", "right_elbow", "left_ankle", "right_ankle"} -> 700
      [] name \in {"left_wrist", "right_wrist"} -> 600
      [] name \in {"left_hip", "right_hip"} -> 900
      [] OTHER -> 500

\* sigmoid = x => 1 / (1 + Math.exp(-10 * (x - 0.5)))
Sigmoid(x) == FDiv(Unit, FAdd(Unit, FExp(FMul(-10 * Unit, FSub(x, 500)))))

RECURSIVE BaseTotals(_, _, _)
\* the first keypoints.forEach: totalScore and totalWeight
BaseTotals(keypoints, i, acc) ==
    IF i > Len(keypoints) THEN acc
    ELSE IF keypoints[i].score = 0 THEN BaseTotals(keypoints, i + 1, acc)
    ELSE CHOOSE totals \in
             {BaseTotals(keypoints, i + 1, next) :
                next \in {[totalScore |-> FAdd(acc.totalScore,
                                               FMul(Sigmoid(keypoints[i].score),
                                                    KEYPOINT_WEIGHTS(keypoints[i].name))),
                           totalWeight |-> FAdd(acc.totalWeight,
                                                KEYPOINT_WEIGHTS(keypoints[i].name))]}} : TRUE

\* gaussian = (x, sigma) => Math.exp(-0.5 * Math.pow(x / sigma, 2))
Gaussian(x, sigma) == FExp(FMul(-500, FSquare(FDiv(x, sigma))))

RECURSIVE AlignmentTotals(_, _, _, _)
\* the poseGuidance.alignment loop: alignmentScore, alignmentCount, stabilityScore
AlignmentTotals(keypoints, alignment, i, acc) ==
    LET Scored(angleScore, stability, confidence) ==
            [alignmentScore |->
                FAdd(acc.alignmentScore,
                     FAdd(FAdd(FMul(angleScore, 600), FMul(stability, 200)),
                          FMul(confidence, 200))),
             alignmentCount |-> acc.alignmentCount + 1,
             stabilityScore |-> FAdd(acc.stabilityScore, stability)]
        Visit(guide, actualAngle) ==
            IF actualAngle.isNull THEN acc
            ELSE Scored(Gaussian(FAbs(FSub(actualAngle.angle, guide.target * Unit)),
                                 guide.tolerance * Unit),
                        calculateJointStability(keypoints, guide.joint),
                        FDiv(SumScores(FilterIncludes(keypoints, guide.joint), 1), 3 * Unit))
    IN  IF i > Len(alignment) THEN acc
        ELSE AlignmentTotals(keypoints, alignment, i + 1,
                             Visit(alignment[i], calculateJointAngle(keypoints, alignment[i].joint)))

\* the banding message
BandMessage(accuracy) ==
    IF FGe(accuracy, 80 * Unit) THEN Msg("Excellent form! Your alignment is very precise.")
    ELSE IF FGe(accuracy, 70 * Unit)
    THEN Msg("Great progress! Your form is getting more refined.")
    ELSE IF FGe(accuracy, 60 * Unit)
    THEN Msg("Good effort! Keep focusing on maintaining alignment.")
    ELSE IF FGe(accuracy, 50 * Unit)
    THEN Msg("You're improving! Continue working on the basic form.")
    ELSE Msg("Keep practicing! Follow the pose guide for better alignment.")

\* `Adjust your ${jointName} angle - try to ${direction} by ${Math.round(difference)} degrees`
AdjustMessage(score) ==
    [text |-> "Adjust your angle - try to by", pose |-> score.pose, joint |-> score.joint,
     dir |-> IF FGt(score.currentAngle, score.targetAngle) THEN "decrease" ELSE "increase",
     by |-> FRound(FAbs(FSub(score.currentAngle, score.targetAngle)))]

RECURSIVE JointMessages(_, _)
\* the messages of the joint scores under 0.6, in the order of the scores
JointMessages(jointScores, i) ==
    IF i > Len(jointScores) THEN <<>>
    ELSE (IF FLt(jointScores[i].score, 600) THEN <<AdjustMessage(jointScores[i])>> ELSE <<>>)
         \o JointMessages(jointScores, i + 1)

\* Math.min(100, Math.max(40, accuracy))
ClampAccuracy(accuracy) == FMin(100 * Unit, FMax(40 * Unit, accuracy))

calculatePoseAccuracyWithFeedback(keypoints, poseType) ==
    LET Result(accuracy) ==
            [accuracy |-> ClampAccuracy(accuracy),
             feedback |-> <<BandMessage(accuracy)>>
                          \o JointMessages(calculateJointScores(keypoints, poseType), 1)]
        Combined(accuracy, alignmentAverage, stabilityAverage, confidenceScore,
                 confidenceWeight) ==
            Result(FAdd(FMul(FAdd(FAdd(FAdd(FMul(accuracy, 300),
                                            FMul(alignmentAverage, 500)),
                                       FMul(stabilityAverage, 100)),
                                  FMul(confidenceScore, 100)),
                             confidenceWeight),
                        FMul(accuracy, FSub(Unit, confidenceWeight))))
        Guided(accuracy, totals, confidenceScore) ==
            IF totals.alignmentCount > 0
            THEN Combined(accuracy,
                          FMul(FDiv(totals.alignmentScore, totals.alignmentCount * Unit),
                               100 * Unit),
                          FMul(FDiv(totals.stabilityScore, totals.alignmentCount * Unit),
                               100 * Unit),
                          confidenceScore,
                          FMin(FDiv(confidenceScore, 100 * Unit), 800))
            ELSE Result(accuracy)
        Based(accuracy) ==
            IF poseType \in DOMAIN POSE_GUIDANCE
            THEN Guided(accuracy,
                        AlignmentTotals(keypoints, Alignment(poseType), 1,
                                        [alignmentScore |-> 0, alignmentCount |-> 0,
                                         stabilityScore |-> 0]),
                        FMul(FDiv(Len(SelectSeq(keypoints,
                                                LAMBDA kp : kp.score # 0
                                                            /\ FGt(kp.score, 200))) * Unit,
                                  Len(keypoints) * Unit),
                             100 * Unit))
            ELSE Result(accuracy)
        Totalled(totals) ==
            Based(FMul(FDiv(totals.totalScore, totals.totalWeight), 100 * Unit))
    IN  CHOOSE result \in
            {Totalled(totals) :
               totals \in {BaseTotals(keypoints, 1, [totalScore |-> 0, totalWeight |-> 0])}} :
            TRUE

(***************************************************************************)
(* poseDetection.ts: validation, stability, alignment, final accuracy      *)
(***************************************************************************)
\* the switch of validatePosePosition: the adjustments of the pose type
PoseAdjustments(keypoints, poseType) ==
    LET P(name) == Find(keypoints, name)
        Has(name) == Find(keypoints, name) # Undefined
        If(cond, text) == IF cond THEN <<Msg(text)>> ELSE <<>>
        OffBy(target, angle) == FGt(FAbs(FSub(target * Unit, angle)), 15 * Unit)
        Leg(left, right) ==
            Find(keypoints, IF FGt(Find(keypoints, "left_ankle").y,
                                   Find(keypoints, "right_ankle").y)
                            THEN right ELSE left)
    IN  CASE poseType = "lotus" /\ Has("left_hip") /\ Has("right_hip")
             /\ Has("left_knee") /\ Has("right_knee") ->
               If(FGt(FAbs(FSub(P("left_hip").y, P("right_hip").y)), 100), "Level your hips")
               \o If(FLt(FAbs(FSub(P("left_knee").x, P("right_knee").x)), 300),
                     "Spread your knees wider for proper lotus position")
               \o (IF Has("nose")
                   THEN If(OffBy(90, calculateAngle(P("nose"),
                                                    MidOf("", P("left_hip"), P("right_hip")),
                                                    Built("", P("nose").x,
                                                          FAdd(P("nose").y, 100)))),
                           "Straighten your spine")
                   ELSE <<>>)
          [] poseType = "tree" /\ Has("left_ankle") /\ Has("right_ankle")
             /\ Has("left_knee") /\ Has("right_knee") ->
               If(FLt(FAbs(FSub(P("left_ankle").y, P("right_ankle").y)), 200),
                  "Lift one foot and place it on your inner thigh or calf")
               \o (IF Leg("left_hip", "right_hip") # Undefined
                   THEN If(OffBy(180, calculateAngle(Leg("left_hip", "right_hip"),
                                                     Leg("left_knee", "right_knee"),
                                                     Leg("left_ankle", "right_ankle"))),
                           "Straighten your standing leg")
                   ELSE <<>>)
          [] poseType \in {"warrior1", "warrior2"} /\ Has("left_hip") /\ Has("left_knee")
             /\ Has("left_ankle") /\ Has("right_hip") /\ Has("right_knee")
             /\ Has("right_ankle") ->
               If(OffBy(90, calculateAngle(P("left_hip"), P("left_knee"), P("left_ankle"))),
                  "Bend your front knee to 90 degrees")
               \o If(OffBy(180, calculateAngle(P("right_hip"), P("right_knee"),
                                               P("right_ankle"))),
                     "Straighten your back leg")
          [] OTHER -> <<>>

validatePosePosition(keypoints, poseType) ==
    LET Checked(visibilityRatio, sideways) ==
            [isValid |-> ~FLt(visibilityRatio, 800) /\ ~sideways,
             feedback |->
                IF FLt(visibilityRatio, 500)
                THEN <<Msg("Please move back so your full body is visible")>>
                ELSE IF FLt(visibilityRatio, 800)
                THEN <<Msg("Adjust your position to ensure all body parts are visible")>>
                ELSE <<>>,
             adjustments |->
                (IF sideways THEN <<Msg("Turn to face the camera directly")>> ELSE <<>>)
                \o PoseAdjustments(keypoints, poseType)]
    IN  Checked(FDiv(Len(SelectSeq(keypoints, LAMBDA kp : FGt(kp.score, 300))) * Unit,
                     17 * Unit),
                /\ Find(keypoints, "left_shoulder") # Undefined
                /\ Find(keypoints, "right_shoulder") # Undefined
                /\ Find(keypoints, "nose") # Undefined
                /\ FLt(FAbs(FSub(Find(keypoints, "left_shoulder").x,
                                 Find(keypoints, "right_shoulder").x)), 200))

RECURSIVE Movement(_, _, _, _)
\* the keypoints.forEach of calculateStabilityScore: totalMovement, validPoints
Movement(keypoints, previous, index, acc) ==
    IF index > Len(keypoints) THEN acc
    ELSE IF /\ keypoints[index].score # 0 /\ At(previous, index - 1).score # 0
            /\ FGt(keypoints[index].score, 300) /\ FGt(At(previous, index - 1).score, 300)
    THEN CHOOSE moved \in
             {Movement(keypoints, previous, index + 1, next) :
                next \in {[totalMovement |-> FAdd(acc.totalMovement,
                                                  calculateDistance(At(previous, index - 1),
                                                                    keypoints[index])),
                           validPoints |-> acc.validPoints + 1]}} : TRUE
    ELSE Movement(keypoints, previous, index + 1, acc)

\* calculateStabilityScore throws a TypeError: prevKeypoint.score is read
\* for a keypoint with a truthy score that previousKeypoints has no entry for
StabilityThrows(keypoints, previous) ==
    /\ previous # Null
    /\ \E index \in DOMAIN keypoints :
          index > Len(previous.keypoints) /\ keypoints[index].score # 0

\* the value calculateStabilityScore returns; it always leaves
\* previousKeypoints = keypoints
calculateStabilityScore(keypoints, previous) ==
    LET Of(moved) ==
            IF moved.validPoints = 0 THEN Unit
            ELSE FMax(0, FSub(Unit, FDiv(FDiv(moved.totalMovement, moved.validPoints * Unit),
                                         100)))
    IN  IF previous = Null THEN Unit
        ELSE Of(Movement(keypoints, previous.keypoints, 1,
                         [totalMovement |-> 0, validPoints |-> 0]))

calculateAlignmentScore(keypoints) ==
    LET Both(a, b) == Usable(a) /\ Usable(b)
        Tilt(d) == FSub(Unit, FMin(Unit, FDiv(d, 100)))
        Mean(scores) ==
            IF Len(scores) = 0 THEN 0
            ELSE FDiv(SumScores([i \in 1..Len(scores) |-> [score |-> scores[i]]], 1),
                      Len(scores) * Unit)
        Pair(a, b) == IF Both(a, b) THEN <<Tilt(FAbs(FSub(a.y, b.y)))>> ELSE <<>>
        Spine(a, b) == IF Both(a, b) THEN <<Tilt(FAbs(FSub(a.x, b.x)))>> ELSE <<>>
    IN  Mean(Pair(Find(keypoints, "left_shoulder"), Find(keypoints, "right_shoulder"))
             \o Pair(Find(keypoints, "left_hip"), Find(keypoints, "right_hip"))
             \o Spine(Find(keypoints, "nose"), Find(keypoints, "mid_hip")))

calculateFinalAccuracy(poseAccuracy, stabilityScore, alignmentScore, jointScores, validation) ==
    LET Penalised(finalScore) ==
            FMin(100 * Unit,
                 FMax(0, IF validation.isValid THEN finalScore ELSE FMul(finalScore, 800)))
        Weighted(avgJointScore) ==
            Penalised(FAdd(FAdd(FAdd(FMul(poseAccuracy, 400), FMul(stabilityScore, 200)),
                                FMul(alignmentScore, 200)),
                           FMul(FMul(avgJointScore, 100 * Unit), 200)))
    IN  Weighted(IF Len(jointScores) > 0
                 THEN FDiv(SumScores(jointScores, 1), Len(jointScores) * Unit)
                 ELSE 0)

(***************************************************************************)
(* poseDetection.ts: detectPose                                            *)
(***************************************************************************)
\* throw new Error('Frame skipped')
FrameSkipped == [threw |-> TRUE, error |-> "Frame skipped"]

\* zero poses reported by throwing
NoPoseResult_thrown == [threw |-> TRUE, error |-> "No pose detected"]

\* the result for poses.length === 0
NoPoseResult ==
    [threw |-> FALSE, score |-> 0,
     feedback |-> <<Msg("No pose detected. Please make sure you are visible in the frame.")>>,
     overallAccuracy |-> 0, jointScores |-> <<>>, keypoints |-> <<>>]

\* an exception that leaves detectPose
ErrorResult_rethrown == [threw |-> TRUE, error |-> "TypeError"]

\* the result of the catch block
ErrorResult ==
    [threw |-> FALSE, score |-> 0,
     feedback |-> <<Msg("Error detecting pose. Please try again.")>>,
     overallAccuracy |-> 0, jointScores |-> <<>>, keypoints |-> <<>>]

RECURSIVE FirstOccurrences(_, _)
\* filter((item, index, array) => array.indexOf(item) === index) over seq[i..]
FirstOccurrences(seq, i) ==
    IF i > Len(seq) THEN <<>>
    ELSE (IF \E j \in 1..(i - 1) : seq[j] = seq[i] THEN <<>> ELSE <<seq[i]>>)
         \o FirstOccurrences(seq, i + 1)

\* the combined feedback returned whole
combinedFeedback_uncut(validation, feedback) ==
    FirstOccurrences(validation.feedback \o feedback \o validation.adjustments, 1)

\* combinedFeedback.slice(0, 3)
combinedFeedback(validation, feedback) ==
    Slice(FirstOccurrences(validation.feedback \o feedback \o validation.adjustments, 1), 3)

\* the result of a frame with a detected pose, from the smoothed keypoints on;
\* previous is previousKeypoints as the frame finds it
ScoredResult(pose, poseType, smoothedKeypoints, previous) ==
    LET Result(jointScores, validation, accuracy) ==
            [threw |-> FALSE, score |-> pose.score,
             feedback |-> combinedFeedback(validation, accuracy.feedback),
             overallAccuracy |->
                calculateFinalAccuracy(accuracy.accuracy,
                                       calculateStabilityScore(smoothedKeypoints, previous),
                                       calculateAlignmentScore(smoothedKeypoints),
                                       jointScores, validation),
             jointScores |-> jointScores, keypoints |-> smoothedKeypoints]
    IN  CHOOSE result \in
            {Result(jointScores, validation, accuracy) :
               jointScores \in {calculateJointScores(smoothedKeypoints, poseType)},
               validation \in {validatePosePosition(smoothedKeypoints, poseType)},
               accuracy \in {calculatePoseAccuracyWithFeedback(smoothedKeypoints, poseType)}} :
            TRUE

(***************************************************************************)
(* The keypoint lists the operations are run on: a body shape on a pixel   *)
(* grid, a confidence for each of three groups of points, and the part of  *)
(* the standard 17-point list the detector hands over.                     *)
(***************************************************************************)
StandardNames ==
    << "nose", "left_eye", "right_eye", "left_ear", "right_ear",
       "left_shoulder", "right_shoulder", "left_elbow", "right_elbow",
       "left_wrist", "right_wrist", "left_hip", "right_hip",
       "left_knee", "right_knee", "left_ankle", "right_ankle" >>

\* standing upright, facing the camera
Standing ==
    << <<4, 1>>, <<5, 0>>, <<3, 0>>, <<5, 1>>, <<3, 1>>,
       <<6, 2>>, <<2, 2>>, <<7, 4>>, <<1, 4>>,
       <<7, 6>>, <<1, 6>>, <<5, 6>>, <<3, 6>>,
       <<5, 9>>, <<3, 9>>, <<5, 12>>, <<3, 12>> >>

\* tree pose: the right knee out, the right foot against the left thigh
Tree ==
    << <<4, 1>>, <<5, 0>>, <<3, 0>>, <<5, 1>>, <<3, 1>>,
       <<6, 2>>, <<2, 2>>, <<7, 4>>, <<1, 4>>,
       <<7, 6>>, <<1, 6>>, <<5, 6>>, <<3, 6>>,
       <<5, 9>>, <<1, 8>>, <<5, 12>>, <<4, 8>> >>

\* folded forward, facing the camera: the head hangs in front of the hips
Fold ==
    << <<4, 6>>, <<5, 7>>, <<3, 7>>, <<5, 6>>, <<3, 6>>,
       <<5, 5>>, <<3, 5>>, <<6, 7>>, <<2, 7>>,
       <<6, 10>>, <<2, 10>>, <<5, 6>>, <<3, 6>>,
       <<5, 9>>, <<3, 9>>, <<5, 12>>, <<3, 12>> >>

\* standing in profile: each left point hides its right point
Sideways ==
    << <<5, 1>>, <<5, 0>>, <<5, 0>>, <<4, 1>>, <<4, 1>>,
       <<4, 2>>, <<4, 2>>, <<4, 4>>, <<4, 4>>,
       <<5, 6>>, <<5, 6>>, <<4, 6>>, <<4, 6>>,
       <<4, 9>>, <<4, 9>>, <<4, 12>>, <<4, 12>> >>

\* a degenerate detection: every point at one pixel
Coincident == [i \in 1..17 |-> <<4, 4>>]

\* the tree pose with the standing leg bent outwards at the knee
TreeBentLeg == [Tree EXCEPT ![14] = <<7, 9>>, ![16] = <<11, 12>>]

Shapes == {Standing, Tree, TreeBentLeg, Fold, Sideways, Coincident}

\* confidences: falsy, visible to `kp.score &&` but under 0.3, and high
ScoreLevels == {0, 200, 900}
ScoreMaps == [upper : ScoreLevels, hips : ScoreLevels, legs : ScoreLevels]

GroupOf(i) == IF i <= 11 THEN "upper" ELSE IF i <= 13 THEN "hips" ELSE "legs"

Body17(shape, sc) ==
    [i \in 1..17 |-> Kp(StandardNames[i], shape[i][1] * Unit, shape[i][2] * Unit,
                        sc[GroupOf(i)])]

\* a point named for a pair of joints, halfway between the two
Midpoint(name, l, r) ==
    Kp(name, (l.x + r.x) \div 2, (l.y + r.y) \div 2, IF l.score < r.score THEN l.score ELSE r.score)

\* the standard list followed by the plural-named midpoints of the pairs
WithMidpoints(body) ==
    body \o << Midpoint("shoulders", body[6], body[7]), Midpoint("elbows", body[8], body[9]),
               Midpoint("wrists", body[10], body[11]), Midpoint("hips", body[12], body[13]),
               Midpoint("knees", body[14], body[15]), Midpoint("ankles", body[16], body[17]) >>

Parts == {"all", "midpoints", "upper", "to_left_hip", "nose", "empty"}

Body(shape, sc, part) ==
    CASE part = "all" -> Body17(shape, sc)
      [] part = "midpoints" -> WithMidpoints(Body17(shape, sc))
      [] part = "upper" -> SubSeq(Body17(shape, sc), 1, 11)
      [] part = "to_left_hip" -> SubSeq(Body17(shape, sc), 1, 12)
      [] part = "nose" -> SubSeq(Body17(shape, sc), 1, 1)
      [] part = "empty" -> <<>>

KeypointLists == {Body(shape, sc, part) : shape \in Shapes, sc \in ScoreMaps, part \in Parts}

\* the reference pose comparePoses is given: a full upright body
TargetKeypoints == Body17(Standing, [upper |-> 900, hips |-> 900, legs |-> 900])

PoseTypes == {"standing-forward-bend", "lotus", "tree", "headstand", "corpse", "unknown-pose"}

(***************************************************************************)
(* SpecScorer: the tolerance scorers on every angle, target and tolerance  *)
(***************************************************************************)
AngleStep == 1000
MaxAngle == 180

Angles == {d * AngleStep : d \in 0..MaxAngle}
\* the targets and tolerances the pose profiles use
Targets == {15 * Unit, 30 * Unit, 45 * Unit, 90 * Unit, 160 * Unit, 165 * Unit,
            170 * Unit, 175 * Unit, 180 * Unit}
Tolerances == {5 * Unit, 8 * Unit, 10 * Unit, 15 * Unit, 20 * Unit, 30 * Unit}

InitScorer ==
    /\ op = "none"
    /\ args \in [actual : Angles, target : Targets, tolerance : Tolerances]
    /\ ret = NoRet
    /\ EngineInit
    /\ PagesInit

CallCalculateAngleAccuracy ==
    /\ op = "none"
    /\ op' = "calculateAngleAccuracy"
    /\ ret' = calculateAngleAccuracy(args.actual, args.target, args.tolerance)
    /\ UNCHANGED <<args, engine, pages>>

CallCalculateJointAccuracy ==
    /\ op = "none"
    /\ op' = "calculateJointAccuracy"
    /\ ret' = calculateJointAccuracy(args.actual, args.target, args.tolerance)
    /\ UNCHANGED <<args, engine, pages>>

NextScorer == CallCalculateAngleAccuracy \/ CallCalculateJointAccuracy

SpecScorer == InitScorer /\ [][NextScorer]_vars

Scored == op \in {"calculateAngleAccuracy", "calculateJointAccuracy"}
Deviation(a) == FAbs(FSub(a, args.target))
\* the scorer the state's operation names, on another measured angle
ScoreOf(a) ==
    IF op = "calculateAngleAccuracy"
    THEN calculateAngleAccuracy(a, args.target, args.tolerance)
    ELSE calculateJointAccuracy(a, args.target, args.tolerance)

\* C6: whenever |angle - target| <= tolerance, both tolerance scorers return
\* exactly 1.0, the boundary |angle - target| = tolerance included.
C6_InBandFullCredit ==
    (Scored /\ Deviation(args.actual) <= args.tolerance) => ret = Unit

C6_Witness ==
    /\ op = "calculateJointAccuracy"
    /\ Deviation(args.actual) = args.tolerance
    /\ ret = Unit

\* C7: beyond the tolerance band every scorer variant is non-increasing in
\* the deviation and never below the positive floor 0.1.
C7_FlooredEverywhere ==
    (Scored /\ Deviation(args.actual) > args.tolerance) =>
        /\ ret >= 100
        /\ \A a \in Angles : Deviation(a) >= Deviation(args.actual) => ScoreOf(a) <= ret

(***************************************************************************)
(* SpecAngle: calculateAngle on every triple of grid points                *)
(***************************************************************************)
GridMax == 3

GridPoints == {Kp("p", x * Unit, y * Unit, 900) : x \in 0..GridMax, y \in 0..GridMax}

InitAngle ==
    /\ op = "none"
    /\ args \in [a : GridPoints \cup {Undefined}, b : GridPoints \cup {Undefined},
                 c : GridPoints \cup {Undefined}]
    /\ ret = NoRet
    /\ EngineInit
    /\ PagesInit

AllPresent == args.a # Undefined /\ args.b # Undefined /\ args.c # Undefined

CallCalculateAngle ==
    /\ op = "none"
    /\ op' = "calculateAngle"
    /\ ret' = calculateAngle(args.a, args.b, args.c)
    /\ UNCHANGED <<args, engine, pages>>

\* the variant without the missing-point test is only ever reached with
\* three points (calculatePoseAccuracy tests points.every first)
CallCalculateAngle_ref ==
    /\ op = "none"
    /\ AllPresent
    /\ op' = "calculateAngle_ref"
    /\ ret' = calculateAngle_ref(args.a, args.b, args.c)
    /\ UNCHANGED <<args, engine, pages>>

NextAngle == CallCalculateAngle \/ CallCalculateAngle_ref

SpecAngle == InitAngle /\ [][NextAngle]_vars

\* the rays b->a and b->c
RayA == [x |-> args.a.x - args.b.x, y |-> args.a.y - args.b.y]
RayC == [x |-> args.c.x - args.b.x, y |-> args.c.y - args.b.y]
NonZero(r) == r.x # 0 \/ r.y # 0
Cross == RayA.x * RayC.y - RayA.y * RayC.x
Dot == RayA.x * RayC.x + RayA.y * RayC.y
\* a, b, c on one line with b strictly between a and c
ColinearBMiddle == AllPresent /\ Cross = 0 /\ Dot < 0
Perpendicular == AllPresent /\ NonZero(RayA) /\ NonZero(RayC) /\ Dot = 0

AngleMeasured == op \in {"calculateAngle", "calculateAngle_ref"} /\ AllPresent

\* C10: for three present points calculateAngle returns an angle in [0, 180]
\* degrees; colinear points with b in the middle give 180 and perpendicular
\* rays give 90, and a joint whose target is that angle scores 1.0 at
\* tolerance 10.
C10_AngleRangeAndScenarios ==
    AngleMeasured =>
        /\ 0 <= ret /\ ret <= 180 * Unit
        /\ ColinearBMiddle =>
             /\ ret = 180 * Unit
             /\ calculateJointAccuracy(ret, 180 * Unit, 10 * Unit) = Unit
             /\ calculateAngleAccuracy(ret, 180 * Unit, 10 * Unit) = Unit
        /\ Perpendicular =>
             /\ ret = 90 * Unit
             /\ calculateJointAccuracy(ret, 90 * Unit, 10 * Unit) = Unit
             /\ calculateAngleAccuracy(ret, 90 * Unit, 10 * Unit) = Unit

\* a reflex difference of the two atan2 values, folded back under 180
C10_Witness ==
    /\ op = "calculateAngle"
    /\ AllPresent
    /\ AngleAt_noFold(args.a, args.b, args.c) > 180 * Unit
    /\ ret < 180 * Unit
    /\ ret > 0

\* C9: with a point missing calculateAngle signals "unavailable", a value
\* that is neither 0 nor NaN.
C9_MissingPointIsUnavailable ==
    (op = "calculateAngle" /\ ~AllPresent) => (ret # 0 /\ ~IsNaN(ret))

(***************************************************************************)
(* SpecScoring: the stateless operations on every keypoint list and pose   *)
(***************************************************************************)
InitScoring ==
    /\ op = "none"
    /\ args \in [keypoints : KeypointLists, poseType : PoseTypes]
    /\ ret = NoRet
    /\ EngineInit
    /\ PagesInit

CallNormalizeKeypoints_ref ==
    /\ op = "none"
    /\ op' = "normalizeKeypoints_ref"
    /\ ret' = [threw |-> FALSE, keypoints |-> normalizeKeypoints_ref(args.keypoints)]
    /\ UNCHANGED <<args, engine, pages>>

CallNormalizeKeypoints ==
    /\ op = "none"
    /\ op' = "normalizeKeypoints"
    /\ ret' = [threw |-> FALSE, keypoints |-> normalizeKeypoints(args.keypoints)]
    /\ UNCHANGED <<args, engine, pages>>

CallNormalizeKeypoints_cmp ==
    /\ op = "none"
    /\ op' = "normalizeKeypoints_cmp"
    /\ ret' = normalizeKeypoints_cmp(args.keypoints)
    /\ UNCHANGED <<args, engine, pages>>

CallCalculatePoseAccuracy ==
    /\ op = "none"
    /\ op' = "calculatePoseAccuracy"
    /\ ret' = calculatePoseAccuracy(args.keypoints, args.poseType)
    /\ UNCHANGED <<args, engine, pages>>

CallComparePoses ==
    /\ op = "none"
    /\ op' = "comparePoses"
    /\ ret' = comparePoses(args.keypoints, TargetKeypoints, args.poseType)
    /\ UNCHANGED <<args, engine, pages>>

CallCalculateJointScores ==
    /\ op = "none"
    /\ op' = "calculateJointScores"
    /\ ret' = [jointScores |-> calculateJointScores(args.keypoints, args.poseType)]
    /\ UNCHANGED <<args, engine, pages>>

CallCalculatePoseAccuracyWithFeedback ==
    /\ op = "none"
    /\ op' = "calculatePoseAccuracyWithFeedback"
    /\ ret' = calculatePoseAccuracyWithFeedback(args.keypoints, args.poseType)
    /\ UNCHANGED <<args, engine, pages>>

NextScoring ==
    \/ CallNormalizeKeypoints_ref
    \/ CallNormalizeKeypoints
    \/ CallNormalizeKeypoints_cmp
    \/ CallCalculatePoseAccuracy
    \/ CallComparePoses
    \/ CallCalculateJointScores
    \/ CallCalculatePoseAccuracyWithFeedback

SpecScoring == InitScoring /\ [][NextScoring]_vars

InUnitRange(score) == ~IsNaN(score) /\ 0 <= score /\ score <= Unit

\* C3: every entry of jointScores from calculateJointScores and every entry
\* of jointAccuracies from comparePoses is a score in [0, 1].
C3_JointScoresInUnitRange ==
    /\ op = "calculateJointScores" =>
          \A i \in DOMAIN ret.jointScores : InUnitRange(ret.jointScores[i].score)
    /\ (op = "comparePoses" /\ ~ret.threw) =>
          \A i \in DOMAIN ret.jointAccuracies : InUnitRange(ret.jointAccuracies[i].score)

\* the messages that tell the user to get into the camera's view
VisibilityGuidance ==
    {"Move closer to the camera for better pose detection",
     "No pose detected. Please make sure you are visible in the frame."}

\* C5: for the empty keypoint list and a pose id with a profile, the accuracy
\* is the lowest value the variant reports (7 from calculatePoseAccuracy,
\* 40 from calculatePoseAccuracyWithFeedback) and the feedback includes a
\* visibility-guidance message.
C5_EmptyListAtFloorWithGuidance ==
    (args.keypoints = <<>> /\ args.poseType # "unknown-pose") =>
        /\ op = "calculatePoseAccuracy" =>
              /\ ret.accuracy = 7 * Unit
              /\ \E i \in DOMAIN ret.feedback : ret.feedback[i].text \in VisibilityGuidance
        /\ op = "calculatePoseAccuracyWithFeedback" =>
              /\ ret.accuracy = 40 * Unit
              /\ \E i \in DOMAIN ret.feedback : ret.feedback[i].text \in VisibilityGuidance

Normalized == op \in {"normalizeKeypoints_ref", "normalizeKeypoints", "normalizeKeypoints_cmp"}

\* C8: no normalizer variant fails, and every coordinate it returns is
\* finite: the input's own when the body scale is 0 or undefined, a finite
\* quotient otherwise.
C8_NormalizeNeverFailsAndStaysFinite ==
    Normalized =>
        /\ ~ret.threw
        /\ \A i \in DOMAIN ret.keypoints :
              IsFinite(ret.keypoints[i].x) /\ IsFinite(ret.keypoints[i].y)

\* the list without its i-th keypoint
RemoveAt(keypoints, i) == SubSeq(keypoints, 1, i - 1) \o SubSeq(keypoints, i + 1, Len(keypoints))

\* C12: removing one keypoint with confidence above 0.3 from the list never
\* increases validAngles, the number of angles calculatePoseAccuracy measures.
C12_CoverageMonotone ==
    op = "calculatePoseAccuracy" =>
        \A i \in DOMAIN args.keypoints :
            FGt(args.keypoints[i].score, 300) =>
                calculatePoseAccuracy(RemoveAt(args.keypoints, i), args.poseType).validAngles
                    <= ret.validAngles

\* a list in which the angles are measured and lose one measurement when a
\* keypoint goes
C12_Witness ==
    /\ op = "calculatePoseAccuracy"
    /\ ret.validAngles > 0
    /\ \E i \in DOMAIN args.keypoints :
          /\ FGt(args.keypoints[i].score, 300)
          /\ calculatePoseAccuracy(RemoveAt(args.keypoints, i), args.poseType).validAngles
                < ret.validAngles

(***************************************************************************)
(* SpecSmooth: a stream of keypoint sets through smoothKeypoints           *)
(***************************************************************************)
\* one tracked point at three places
SmoothInputs == {<<Kp("nose", x, y, 900)>> : <<x, y>> \in {<<0, 0>>, <<1000, 2000>>, <<4000, 1000>>}}

InitSmooth ==
    /\ op = "none"
    /\ args = NoArgs
    /\ ret = NoRet
    /\ EngineInit
    /\ PagesInit

SmoothKeypoints ==
    \E keypoints \in SmoothInputs :
        /\ op' = "smoothKeypoints"
        /\ args' = [keypoints |-> keypoints]
        /\ keypointHistory' = Pushed(keypointHistory, keypoints)
        /\ ret' = Smoothed(keypointHistory', keypoints)
        /\ UNCHANGED <<now, lastProcessedTime, previousKeypoints, pages>>

NextSmooth == SmoothKeypoints

SpecSmooth == InitSmooth /\ [][NextSmooth]_vars

\* C17: after a smoothKeypoints call the history holds at most MAX_HISTORY
\* sets: the set just passed in last, before it the most recent earlier sets
\* in their arrival order, the oldest dropped first.
C17_HistoryBoundedMostRecent ==
    [][op' = "smoothKeypoints" =>
        /\ Len(keypointHistory') <= MAX_HISTORY
        /\ Len(keypointHistory') =
              IF Len(keypointHistory) < MAX_HISTORY THEN Len(keypointHistory) + 1
              ELSE MAX_HISTORY
        /\ keypointHistory'[Len(keypointHistory')] = args'.keypoints
        /\ \A i \in 1..(Len(keypointHistory') - 1) :
              keypointHistory'[i] =
                 keypointHistory[i + Len(keypointHistory) + 1 - Len(keypointHistory')]]_vars

\* a full history whose oldest and newest sets differ
C17_Witness ==
    /\ op = "smoothKeypoints"
    /\ Len(keypointHistory) = MAX_HISTORY
    /\ keypointHistory[MAX_HISTORY] = args.keypoints
    /\ keypointHistory[1] # keypointHistory[MAX_HISTORY]

\* the weight of a sample that is age frames old
Weight(age) == FExp(-500 * age)

RECURSIVE WeightedTotal(_, _, _)
\* the sum over the samples h.. of the history of f(sample) * weight
WeightedTotal(h, coord, acc) ==
    IF h > Len(keypointHistory) THEN acc
    ELSE WeightedTotal(h + 1, coord,
                       FAdd(acc, FMul(IF coord = "x" THEN keypointHistory[h][1].x
                                      ELSE IF coord = "y" THEN keypointHistory[h][1].y
                                      ELSE Unit,
                                      Weight(Len(keypointHistory) - h))))

\* C18: with fewer than 3 samples in the history smoothKeypoints returns its
\* input unchanged; from the third sample on each point is the weighted
\* average over the history, with weights that are strictly larger for a
\* more recent frame.
C18_PassThroughThenWeightedAverage ==
    op = "smoothKeypoints" =>
        IF Len(keypointHistory) < 3 THEN ret = args.keypoints
        ELSE /\ ret[1].x = FDiv(WeightedTotal(1, "x", 0), WeightedTotal(1, "w", 0))
             /\ ret[1].y = FDiv(WeightedTotal(1, "y", 0), WeightedTotal(1, "w", 0))
             /\ \A older, newer \in 0..(Len(keypointHistory) - 1) :
                  newer < older => Weight(newer) > Weight(older)

\* a third sample whose smoothed point is neither the input nor the oldest
C18_Witness ==
    /\ op = "smoothKeypoints"
    /\ Len(keypointHistory) = 3
    /\ keypointHistory[1][1].x = 0
    /\ args.keypoints[1].x = 4000
    /\ ret[1].x > 0
    /\ ret[1].x < 4000

(***************************************************************************)
(* Spec: a practice session.  Frames arrive through detectPose, which      *)
(* carries the module state of poseDetection.ts from frame to frame; the   *)
(* exported aggregators are called on the lists a caller holds.            *)
(***************************************************************************)
\* Date.now() when the page loads, and the last clock value looked at
StartTime == 1000
MaxTime == 1250
\* the time between two frame callbacks: under and at PROCESS_INTERVAL
FrameGaps == {50, 100}

Confident == [upper |-> 900, hips |-> 900, legs |-> 900]
LegsDim == [upper |-> 900, hips |-> 900, legs |-> 200]

\* poses[0] of estimatePoses: the keypoints and the pose score
Pose(shape, sc) ==
    [outcome |-> "pose", keypoints |-> Body17(shape, sc), score |-> sc.upper]

\* initializeDetector or estimatePoses throws; estimatePoses returns []
DetectorFails == [outcome |-> "fails", keypoints |-> <<>>, score |-> 0]
NoPoses == [outcome |-> "none", keypoints |-> <<>>, score |-> 0]

\* a pose reported with the keypoints down to the wrists only
UpperPose ==
    [outcome |-> "pose", keypoints |-> SubSeq(Body17(Tree, Confident), 1, 11), score |-> 900]

\* what estimatePoses can hand over
DetectedPoses ==
    {Pose(Tree, Confident), Pose(Tree, LegsDim), Pose(Coincident, Confident), UpperPose}

\* the pose ids a session is opened with: one with guidance, one without
SessionPoseTypes == {"tree", "unknown-pose"}

\* the lists the exported aggregators are called with
CallerLists == {pose.keypoints : pose \in DetectedPoses} \cup {<<>>}

Init ==
    /\ op = "none"
    /\ args = NoArgs
    /\ ret = NoRet
    /\ now = StartTime
    /\ lastProcessedTime = 0
    /\ keypointHistory = <<>>
    /\ previousKeypoints = Null
    /\ PagesInit

\* toggleRecording of PracticePage.tsx: a practice session starts or ends;
\* nothing of poseDetection.ts is touched (cleanup is imported, never called)
ToggleRecording ==
    /\ op' = "toggleRecording"
    /\ args' = NoArgs
    /\ ret' = NoRet
    /\ pump' = [pump EXCEPT !.isRecording = ~pump.isRecording]
    /\ UNCHANGED <<engine, page, practice>>

\* every frame is let through, whatever the time since the last one
shouldProcessFrame_always(time, last) == TRUE

\* a frame is let through from half the interval on
shouldProcessFrame_early(time, last) == 2 * (time - last) >= PROCESS_INTERVAL

\* now - lastProcessedTime >= PROCESS_INTERVAL; the caller records the time
shouldProcessFrame(time, last) == time - last >= PROCESS_INTERVAL

\* detectPose(video, poseType) called by the frame loop at a later clock
\* value, run to its end; detector is what initializeDetector and
\* estimatePoses do.  The normalised and the smoothed list are taken as
\* SubSeq(s, 1, Len(s)), the same list with every element evaluated.
DetectPose ==
    \E videoValid \in BOOLEAN, gap \in FrameGaps,
       detector \in {DetectorFails, NoPoses} \cup DetectedPoses, poseType \in SessionPoseTypes :
        /\ pump.isRecording
        /\ now + gap <= MaxTime
        /\ now' = now + gap
        /\ op' = "detectPose"
        /\ args' = [videoValid |-> videoValid, detector |-> detector, poseType |-> poseType]
        /\ UNCHANGED pages
        /\ IF ~videoValid \/ ~shouldProcessFrame(now', lastProcessedTime)
           THEN /\ ret' = FrameSkipped
                /\ UNCHANGED <<lastProcessedTime, keypointHistory, previousKeypoints>>
           ELSE /\ lastProcessedTime' = now'
                /\ IF detector.outcome = "fails"
                   THEN /\ ret' = ErrorResult
                        /\ UNCHANGED <<keypointHistory, previousKeypoints>>
                   ELSE IF detector.outcome = "none"
                   THEN /\ ret' = NoPoseResult
                        /\ UNCHANGED <<keypointHistory, previousKeypoints>>
                   ELSE \E normalizedKeypoints \in
                             {SubSeq(n, 1, Len(n)) : n \in {normalizeKeypoints(detector.keypoints)}} :
                        \E history \in {Pushed(keypointHistory, normalizedKeypoints)} :
                          /\ keypointHistory' = history
                          /\ IF SmoothThrows(history, normalizedKeypoints)
                             THEN /\ ret' = ErrorResult
                                  /\ UNCHANGED previousKeypoints
                             ELSE \E smoothedKeypoints \in
                                     {SubSeq(s, 1, Len(s)) :
                                        s \in {Smoothed(history, normalizedKeypoints)}} :
                                  IF StabilityThrows(smoothedKeypoints, previousKeypoints)
                                  THEN /\ ret' = ErrorResult
                                       /\ UNCHANGED previousKeypoints
                                  ELSE /\ previousKeypoints' =
                                            [isNull |-> FALSE, keypoints |-> smoothedKeypoints]
                                       /\ ret' = ScoredResult(detector, poseType,
                                                              smoothedKeypoints,
                                                              previousKeypoints)

\* calculatePoseAccuracy(keypoints, poseType) of referenceImages.ts
CalculatePoseAccuracy ==
    \E keypoints \in CallerLists, poseType \in SessionPoseTypes :
        /\ op' = "calculatePoseAccuracy"
        /\ args' = [keypoints |-> keypoints, poseType |-> poseType]
        /\ ret' = calculatePoseAccuracy(keypoints, poseType)
        /\ UNCHANGED <<engine, pages>>

\* comparePoses(userPose, targetPose, poseType) of poseComparison.ts
ComparePoses ==
    \E keypoints \in CallerLists, poseType \in SessionPoseTypes :
        /\ op' = "comparePoses"
        /\ args' = [keypoints |-> keypoints, poseType |-> poseType]
        /\ ret' = comparePoses(keypoints, TargetKeypoints, poseType)
        /\ UNCHANGED <<engine, pages>>

Next ==
    \/ ToggleRecording
    \/ DetectPose
    \/ CalculatePoseAccuracy
    \/ ComparePoses

Spec == Init /\ [][Next]_vars

\* a frame that detectPose scored: the guard passed and a pose was detected
FrameScored ==
    op = "detectPose" /\ ~ret.threw /\ args.detector.outcome = "pose" /\ ret.keypoints # <<>>

\* ret carries a feedback list
HasFeedback ==
    \/ op = "calculatePoseAccuracy"
    \/ (op \in {"detectPose", "comparePoses"} /\ ~ret.threw)

\* C1: with a pose id that has a profile, the accuracy reported is in
\* [minFloor, 100] (minFloor 5 for calculatePoseAccuracy, 40 for detectPose,
\* which scores with calculatePoseAccuracyWithFeedback), on every return
\* path of detectPose.
C1_AccuracyWithinFloorAndCeiling ==
    /\ (op = "calculatePoseAccuracy" /\ args.poseType = "tree") =>
          /\ ~IsNaN(ret.accuracy)
          /\ 5 * Unit <= ret.accuracy /\ ret.accuracy <= 100 * Unit
    /\ (op = "detectPose" /\ ~ret.threw /\ args.poseType = "tree") =>
          /\ ~IsNaN(ret.overallAccuracy)
          /\ 40 * Unit <= ret.overallAccuracy /\ ret.overallAccuracy <= 100 * Unit

\* C2: the feedback list returned by detectPose, calculatePoseAccuracy and
\* comparePoses has at most 3 entries and no two equal entries.
C2_FeedbackCappedAndDistinct ==
    HasFeedback => (Len(ret.feedback) <= 3 /\ ~HasDuplicates(ret.feedback))

\* a scored frame whose combined feedback had more than 3 distinct entries
C2_Witness ==
    /\ FrameScored
    /\ Len(ret.feedback) = 3
    /\ Len(combinedFeedback_uncut(validatePosePosition(ret.keypoints, args.poseType),
                                  calculatePoseAccuracyWithFeedback(ret.keypoints,
                                                                    args.poseType).feedback)) > 3

\* C4: for a pose id without a profile, calculatePoseAccuracy and detectPose
\* (on a detected pose) return score 0, the single feedback entry 'Unknown
\* pose type' and no joint scores.
C4_UnknownPoseIsTerminal ==
    /\ (op = "calculatePoseAccuracy" /\ args.poseType = "unknown-pose") =>
          /\ ret.accuracy = 0
          /\ ret.feedback = <<Msg("Unknown pose type")>>
    /\ (FrameScored /\ args.poseType = "unknown-pose") =>
          /\ ret.overallAccuracy = 0
          /\ ret.feedback = <<Msg("Unknown pose type")>>
          /\ ret.jointScores = <<>>

\* the last detectPose call passed the video test and the rate guard
Processed == op = "detectPose" /\ args.videoValid /\ lastProcessedTime = now

\* C13: when the detector returns zero poses, detectPose does not throw and
\* returns score 0, no joint scores and one visibility message.
C13_NoPoseIsHandled ==
    (Processed /\ args.detector.outcome = "none") =>
        /\ ~ret.threw
        /\ ret.score = 0
        /\ ret.jointScores = <<>>
        /\ Len(ret.feedback) = 1
        /\ ret.feedback[1].text \in VisibilityGuidance

C13_Witness ==
    /\ Processed
    /\ args.detector.outcome = "none"
    /\ ret.feedback = <<Msg("No pose detected. Please make sure you are visible in the frame.")>>
    /\ keypointHistory # <<>>

\* the frame of this step gets past the rate guard with a detected pose, and
\* smoothKeypoints or calculateStabilityScore throws on it
RaisedInFrame ==
    /\ op' = "detectPose"
    /\ args'.videoValid
    /\ lastProcessedTime' = now'
    /\ args'.detector.outcome = "pose"
    /\ LET Raised(history, keypoints) ==
               \/ SmoothThrows(history, keypoints)
               \/ StabilityThrows(Smoothed(history, keypoints), previousKeypoints)
           Normalized_(keypoints) == Raised(Pushed(keypointHistory, keypoints), keypoints)
       IN  Normalized_(normalizeKeypoints(args'.detector.keypoints))

\* C14: an exception raised in the smoothing or the stability step of a frame
\* is caught inside detectPose: the call returns, with score 0, no joint
\* scores and one feedback string, and throws nothing to the frame loop.
C14_PathExceptionsAreCaught ==
    [][RaisedInFrame =>
         /\ ~ret'.threw
         /\ ret'.score = 0
         /\ ret'.jointScores = <<>>
         /\ Len(ret'.feedback) = 1]_vars

\* the third frame of a history that holds an 11-point list: smoothKeypoints
\* has pushed the 17 points of the frame and then thrown
C14_Witness ==
    /\ Processed
    /\ args.detector = Pose(Tree, Confident)
    /\ Len(keypointHistory) = 3
    /\ Len(keypointHistory[1]) = 11
    /\ Len(keypointHistory[3]) = 17
    /\ ret = ErrorResult

\* toggleRecording has just started a practice session
SessionStarted == op = "toggleRecording" /\ pump.isRecording

\* C15: the scoring state is per session: when a practice session starts, the
\* keypoint history and the previous-keypoints record are empty, so that the
\* first processed frame of the session is smoothed and rated for stability
\* without any frame of an earlier session.
C15_ScoringStateStartsEmpty ==
    SessionStarted => (keypointHistory = <<>> /\ previousKeypoints = Null)


(***************************************************************************)
(* SpecTracker: the stability tracker of the practice session component    *)
(* of PoseLibrary.tsx.  A click on Start resets the window and waits for   *)
(* the camera; when the camera is there, one startPoseDetection callback   *)
(* is queued.  The callback was created by the render the click happened   *)
(* in, where isSessionStarted is false, so it asks for no further frame:   *)
(* the window receives one score for each click on Start.                  *)
(***************************************************************************)
confidenceWindowSize == 10
\* the clicks on Start looked at, one more than the window holds
MaxStarts == 11

\* numbers.reduce((a, b) => a + b): the first element is the initial value
Total(numbers) ==
    LET RECURSIVE Added(_, _)
        Added(i, a) == IF i > Len(numbers) THEN a ELSE Added(i + 1, FAdd(a, numbers[i]))
    IN  IF numbers = <<>> THEN NaN ELSE Added(2, numbers[1])

\* mean = sum / length; reduce((a, b) => a + Math.pow(b - mean, 2), 0) / length
calculateVariance(numbers) ==
    LET RECURSIVE Squares(_, _, _)
        Squares(mean, i, a) ==
            IF i > Len(numbers) THEN a
            ELSE Squares(mean, i + 1, FAdd(a, FSquare(FSub(numbers[i], mean))))
        Around(mean) == FDiv(Squares(mean, 1, 0), Len(numbers) * Unit)
    IN  Around(FDiv(Total(numbers), Len(numbers) * Unit))

\* the moving average returned as it is, without the confidence threshold
calculateWeightedAccuracy_unthresholded(scores) ==
    LET RECURSIVE Smooth(_, _)
        Smooth(i, smoothedScore) ==
            IF i > Len(scores) THEN smoothedScore
            ELSE Smooth(i + 1, FAdd(FMul(300, scores[i]), FMul(Unit - 300, smoothedScore)))
    IN  IF scores = <<>> THEN 0
        ELSE FMin(FMax(Smooth(2, scores[1]), 0), 100 * Unit)

\* alpha = 0.3, smoothedScore from scores[0] on; under confidenceThreshold * 100
\* the result is 0, else the average clamped to [0, 100]
calculateWeightedAccuracy(scores) ==
    LET RECURSIVE Smooth(_, _)
        Smooth(i, smoothedScore) ==
            IF i > Len(scores) THEN smoothedScore
            ELSE Smooth(i + 1, FAdd(FMul(300, scores[i]), FMul(Unit - 300, smoothedScore)))
        Thresholded(smoothedScore) ==
            IF FLt(smoothedScore, FMul(300, 100 * Unit)) THEN 0
            ELSE FMin(FMax(smoothedScore, 0), 100 * Unit)
    IN  IF scores = <<>> THEN 0 ELSE Thresholded(Smooth(2, scores[1]))

\* mean > 80 ? 15 : mean > 60 ? 20 : 25
stabilityThreshold(mean) ==
    IF FGt(mean, 80 * Unit) THEN 15 * Unit
    ELSE IF FGt(mean, 60 * Unit) THEN 20 * Unit
    ELSE 25 * Unit

\* [...prev, newScore].slice(-confidenceWindowSize)
newHistory(prev, newScore) ==
    LET LastOf(all) ==
            IF Len(all) <= confidenceWindowSize THEN all
            ELSE SubSeq(all, Len(all) - confidenceWindowSize + 1, Len(all))
    IN  LastOf(Append(prev, newScore))

\* the window counted as stable when the variance reaches the threshold
updateConfidenceHistory_lenient(p, newScore) ==
    LET Classified(history, isStableNow) ==
            [p EXCEPT !.confidenceHistory = history,
                      !.isStable = isStableNow,
                      !.stableScore = IF isStableNow THEN calculateWeightedAccuracy(history) ELSE @]
        Updated(history) ==
            IF Len(history) # confidenceWindowSize THEN [p EXCEPT !.confidenceHistory = history]
            ELSE Classified(history,
                            FLe(calculateVariance(history),
                                stabilityThreshold(FDiv(Total(history), confidenceWindowSize * Unit))))
    IN  Updated(newHistory(p.confidenceHistory, newScore))

\* the state updater of setConfidenceHistory: the window slides; once it is
\* full isStable is set, and stableScore too when the window is stable
\* (updateSessionAccuracy writes to the session context, which is not kept here)
updateConfidenceHistory(p, newScore) ==
    LET Classified(history, isStableNow) ==
            [p EXCEPT !.confidenceHistory = history,
                      !.isStable = isStableNow,
                      !.stableScore = IF isStableNow THEN calculateWeightedAccuracy(history) ELSE @]
        Updated(history) ==
            IF Len(history) # confidenceWindowSize THEN [p EXCEPT !.confidenceHistory = history]
            ELSE Classified(history,
                            FLt(calculateVariance(history),
                                stabilityThreshold(FDiv(Total(history), confidenceWindowSize * Unit))))
    IN  Updated(newHistory(p.confidenceHistory, newScore))

\* rawScore = overallAccuracy || score || 0, where 0 and NaN are falsy;
\* Math.round(Math.min(Math.max(rawScore, 0), 1) * 100)
scorePercentage(result) ==
    LET Truthy(a) == a # 0 /\ ~IsNaN(a)
        rawScore ==
            IF Truthy(result.overallAccuracy) THEN result.overallAccuracy
            ELSE IF Truthy(result.score) THEN result.score
            ELSE 0
    IN  FRound(FMul(FMin(FMax(rawScore, 0), Unit), 100 * Unit))

\* the whole-number scores a window is filled with: a window holds scores of
\* one band, so that equal, close and spread windows all occur
ScoreBands == {{0}, {20, 30}, {29}, {65, 74}, {90, 98}, {100}}

\* what detectPose resolved with, as far as startPoseDetection reads it: a
\* result of percent level: the overall accuracy is that fraction (0 at level
\* 0, where the pose score is 0 too), or it is NaN and the pose score is that
\* fraction; an overall accuracy of 1 and more gives 100
ResultsAt(level) ==
    {[hasKeypoints |-> TRUE, overallAccuracy |-> level * 10,
      score |-> IF level = 0 THEN 0 ELSE 900],
     [hasKeypoints |-> TRUE, overallAccuracy |-> NaN, score |-> level * 10]}
    \cup (IF level = 100
          THEN {[hasKeypoints |-> TRUE, overallAccuracy |-> 87 * Unit, score |-> 900]}
          ELSE {})

\* the results of a skipped or failed frame and of a frame without a pose
EmptyResult == [hasKeypoints |-> FALSE, overallAccuracy |-> 0, score |-> 0]

\* the levels the next frame can have after the window history
LevelsAfter(history) ==
    IF history = <<>> THEN UNION ScoreBands
    ELSE UNION {band \in ScoreBands : history[1] \in {level * Unit : level \in band}}

InitTracker ==
    /\ op = "none"
    /\ args = NoArgs
    /\ ret = NoRet
    /\ EngineInit
    /\ PagesInit

\* handleStartSession up to "await initializeCamera()": the Start button is
\* shown while isSessionStarted is false; the score and the window are reset,
\* stableScore and isStable are not
HandleStartSession ==
    /\ ~page.isSessionStarted
    /\ page.starting < MaxStarts
    /\ op' = "handleStartSession"
    /\ args' = NoArgs
    /\ ret' = NoRet
    /\ page' = [page EXCEPT !.currentScore = 0, !.confidenceHistory = <<>>,
                            !.starting = @ + 1]
    /\ UNCHANGED <<engine, pump, practice>>

\* handleStartSession after the camera is there: the session is started and
\* startPoseDetection is handed to requestAnimationFrame
CameraReady ==
    /\ page.starting > 0
    /\ op' = "cameraReady"
    /\ args' = NoArgs
    /\ ret' = NoRet
    /\ page' = [page EXCEPT !.isSessionStarted = TRUE, !.starting = @ - 1,
                            !.pending = @ + 1]
    /\ UNCHANGED <<engine, pump, practice>>

\* a queued startPoseDetection runs: isPaused and isSessionStarted are the
\* values of the render that created it (false, false), so it detects even when
\* the session is paused by now and queues no further frame
StartPoseDetection ==
    \E result \in {EmptyResult} \cup UNION {ResultsAt(level) : level \in LevelsAfter(page.confidenceHistory)} :
        /\ page.pending > 0
        /\ op' = "startPoseDetection"
        /\ args' = result
        /\ ret' = NoRet
        /\ page' = IF result.hasKeypoints
                   THEN updateConfidenceHistory(
                            [page EXCEPT !.currentScore = scorePercentage(result),
                                         !.pending = @ - 1],
                            scorePercentage(result))
                   ELSE [page EXCEPT !.pending = @ - 1]
        /\ UNCHANGED <<engine, pump, practice>>

\* handlePauseSession: isPaused is toggled; on resume startPoseDetection of
\* the paused render is queued, which returns at once
HandlePauseSession ==
    /\ page.isSessionStarted
    /\ op' = "handlePauseSession"
    /\ args' = NoArgs
    /\ ret' = NoRet
    /\ page' = [page EXCEPT !.isPaused = ~@]
    /\ UNCHANGED <<engine, pump, practice>>

\* handleEndSession without the navigation: the component stays mounted and
\* keeps what the handler does not reset
HandleEndSession_staysMounted ==
    /\ page.isSessionStarted
    /\ op' = "handleEndSession"
    /\ args' = [isStable |-> page.isStable]
    /\ ret' = NoRet
    /\ page' = [page EXCEPT !.isSessionStarted = FALSE, !.isPaused = FALSE,
                            !.starting = 0, !.pending = 0]
    /\ UNCHANGED <<engine, pump, practice>>

\* handleEndSession: navigate('/dashboard') unmounts the component; its state
\* is gone, and a callback still queued finds videoRef.current null; args
\* keeps whether the session that ends was shown as stable
HandleEndSession ==
    /\ page.isSessionStarted
    /\ op' = "handleEndSession"
    /\ args' = [isStable |-> page.isStable]
    /\ ret' = NoRet
    /\ page' = PageMounted
    /\ UNCHANGED <<engine, pump, practice>>

NextTracker ==
    \/ HandleStartSession
    \/ CameraReady
    \/ StartPoseDetection
    \/ HandlePauseSession
    \/ HandleEndSession

SpecTracker == InitTracker /\ [][NextTracker]_vars

\* {Math.round(currentScore)}%: the accuracy the page shows
displayedScore == FRound(page.currentScore)


\* the whole numbers of the window
WindowLevels == [i \in DOMAIN page.confidenceHistory |-> page.confidenceHistory[i] \div Unit]

\* the sum of f over the window
WindowSum(f(_)) ==
    LET RECURSIVE Upto(_)
        Upto(i) == IF i = 0 THEN 0 ELSE Upto(i - 1) + f(WindowLevels[i])
    IN  Upto(Len(WindowLevels))

Itself(level) == level
Squared(level) == level * level

\* W * W times the population variance of a window of W whole numbers:
\* W * (sum of squares) - (sum)^2
WindowSpread == confidenceWindowSize * WindowSum(Squared) - WindowSum(Itself) * WindowSum(Itself)

\* 15 when the mean is above 80, 20 when it is above 60, 25 otherwise
WindowThreshold ==
    IF WindowSum(Itself) > 80 * confidenceWindowSize THEN 15
    ELSE IF WindowSum(Itself) > 60 * confidenceWindowSize THEN 20
    ELSE 25

WindowFull == Len(page.confidenceHistory) = confidenceWindowSize

\* C19: the score window never holds more than W = 10 values; as long as it
\* is not full nothing is classified (isStable and stableScore keep their
\* initial values), and when it is full isStable is true exactly when the
\* population variance of the window is strictly below the threshold chosen
\* from the window mean (15 above 80, 20 above 60, 25 otherwise).
C19_WindowClassification ==
    /\ Len(page.confidenceHistory) <= confidenceWindowSize
    /\ ~WindowFull => (~page.isStable /\ page.stableScore = 0)
    /\ WindowFull =>
         (page.isStable <=>
            WindowSpread < WindowThreshold * confidenceWindowSize * confidenceWindowSize)

\* a full window of five 20s and five 30s: the variance is 25, the threshold
\* at mean 25 is 25, and the window is not stable
C19_Witness ==
    /\ op = "startPoseDetection"
    /\ WindowFull
    /\ WindowSum(Itself) = 250
    /\ WindowSpread = 25 * confidenceWindowSize * confidenceWindowSize
    /\ ~page.isStable


\* the window is full of one and the same score
ConstantWindow ==
    /\ WindowFull
    /\ \A i \in DOMAIN page.confidenceHistory : page.confidenceHistory[i] = page.confidenceHistory[1]

FrameTracked == op = "startPoseDetection" /\ args.hasKeypoints

\* C20: after each processed frame the score the page reports is stableScore
\* (the moving average of the window) when the window is classified stable,
\* and the raw score of that frame when it is not.
C20_StableScoreIsReported ==
    FrameTracked =>
        displayedScore = IF page.isStable THEN page.stableScore ELSE scorePercentage(args)


(***************************************************************************)
(* SpecPump: the detection effect of PracticePage.tsx.  Each run of the    *)
(* effect starts a frame loop of its own (detectPoseFrame with its own     *)
(* isProcessing and animationFrame); a loop is either inside detectPose    *)
(* or waits for the animation frame it has requested.  What the calls do   *)
(* to the state of poseDetection.ts is left to Spec.                       *)
(***************************************************************************)
\* the frame loops looked at at a time
MaxLoops == 4

\* a loop started by the effect: detectPoseFrame() is called at once, finds
\* isProcessing false and calls detectPose; animationFrame is not yet set
LoopStarted == [position |-> "inFlight", effect |-> "current"]

\* the cleanup of the effect: cancelAnimationFrame(animationFrame) ends the
\* loop when the frame it has requested is still to come; while the loop is
\* inside detectPose, animationFrame is undefined or the id of a frame that
\* has fired, and the loop goes on
CleanedUp(loops) ==
    LET RECURSIVE From(_)
        From(i) ==
            IF i > Len(loops) THEN <<>>
            ELSE IF loops[i].effect # "current" THEN <<loops[i]>> \o From(i + 1)
            ELSE IF loops[i].position = "scheduled" THEN From(i + 1)
            ELSE <<[loops[i] EXCEPT !.effect = "cleanedUp"]>> \o From(i + 1)
    IN  From(1)

InitPump ==
    /\ op = "none"
    /\ args = NoArgs
    /\ ret = NoRet
    /\ EngineInit
    /\ PagesInit

\* toggleRecording while not recording: isRecording becomes true and the
\* effect runs
StartRecording ==
    /\ ~pump.isRecording
    /\ Len(pump.loops) < MaxLoops
    /\ op' = "toggleRecording"
    /\ args' = NoArgs
    /\ ret' = NoRet
    /\ pump' = [isRecording |-> TRUE, loops |-> Append(pump.loops, LoopStarted)]
    /\ UNCHANGED <<engine, page, practice>>

\* toggleRecording while recording: isRecording becomes false and the cleanup
\* of the effect runs
StopRecording ==
    /\ pump.isRecording
    /\ op' = "toggleRecording"
    /\ args' = NoArgs
    /\ ret' = NoRet
    /\ pump' = [isRecording |-> FALSE, loops |-> CleanedUp(pump.loops)]
    /\ UNCHANGED <<engine, page, practice>>

\* poseId or updateSessionAccuracy changes while recording: the cleanup runs
\* and the effect runs again
EffectRerun ==
    /\ pump.isRecording
    /\ Len(CleanedUp(pump.loops)) < MaxLoops
    /\ op' = "effectRerun"
    /\ args' = NoArgs
    /\ ret' = NoRet
    /\ pump' = [pump EXCEPT !.loops = Append(CleanedUp(pump.loops), LoopStarted)]
    /\ UNCHANGED <<engine, page, practice>>

\* the detectPose call of a loop that stops for good when the call rejects:
\* isProcessing stays true and no frame is requested
DetectionSettles_stallsOnError ==
    \E i \in DOMAIN pump.loops, outcome \in {"result", "error"} :
        /\ pump.loops[i].position = "inFlight"
        /\ op' = "detectionSettles"
        /\ args' = [loop |-> i, outcome |-> outcome]
        /\ ret' = NoRet
        /\ pump' = [pump EXCEPT !.loops[i].position =
                                   IF outcome = "error" THEN "stalled" ELSE "scheduled"]
        /\ UNCHANGED <<engine, page, practice>>

\* the detectPose call of a loop resolves with a result or rejects with an
\* error: the finally block resets isProcessing and the next animation frame
\* is requested, whether or not the effect was cleaned up meanwhile
DetectionSettles ==
    \E i \in DOMAIN pump.loops, outcome \in {"result", "error"} :
        /\ pump.loops[i].position = "inFlight"
        /\ op' = "detectionSettles"
        /\ args' = [loop |-> i, outcome |-> outcome]
        /\ ret' = NoRet
        /\ pump' = [pump EXCEPT !.loops[i].position = "scheduled"]
        /\ UNCHANGED <<engine, page, practice>>

\* the animation frame of a loop fires: detectPoseFrame calls detectPose; a
\* call that is not due is rejected at once as 'Frame skipped' and the next
\* frame is requested, a call that is due waits for the detector
FrameCallback ==
    \E i \in DOMAIN pump.loops, due \in BOOLEAN :
        /\ pump.loops[i].position = "scheduled"
        /\ op' = "detectPoseFrame"
        /\ args' = [loop |-> i, due |-> due]
        /\ ret' = NoRet
        /\ pump' = IF due THEN [pump EXCEPT !.loops[i].position = "inFlight"] ELSE pump
        /\ UNCHANGED <<engine, page, practice>>

NextPump ==
    \/ StartRecording
    \/ StopRecording
    \/ EffectRerun
    \/ DetectionSettles
    \/ FrameCallback

SpecPump == InitPump /\ [][NextPump]_vars

\* a frame callback whose detectPose call is past the rate guard
FrameDue == FrameCallback /\ args'.due

\* a call that is awaited settles; a loop that keeps requesting frames gets
\* one, PROCESS_INTERVAL after the last processed frame at the latest
SpecPumpLive == SpecPump /\ WF_vars(DetectionSettles) /\ SF_vars(FrameDue)

\* the loops that are inside detectPose
InFlight == {i \in DOMAIN pump.loops : pump.loops[i].position = "inFlight"}

\* C16: engine invocations never overlap: a detectPose call is started only
\* after the previous one has completed, so at most one call is in flight,
\* whatever the order of frame callbacks, start, stop and effect re-runs.
C16_InvocationsNeverOverlap == Cardinality(InFlight) <= 1


\* a detectPose call has just been made on a valid video
CallMade == op' = "detectPose" /\ args'.videoValid

\* C21: frame-rate guard: a detectPose call made less than PROCESS_INTERVAL
\* after the last processed frame is rejected as 'Frame skipped' and leaves
\* lastProcessedTime as it is, so that two processed frames are at least
\* PROCESS_INTERVAL apart.
C21_FrameRateGuard ==
    [][/\ (CallMade /\ now' - lastProcessedTime < PROCESS_INTERVAL) =>
             (ret' = FrameSkipped /\ lastProcessedTime' = lastProcessedTime)
       /\ lastProcessedTime' # lastProcessedTime =>
             (lastProcessedTime' = now' /\ lastProcessedTime' - lastProcessedTime >= PROCESS_INTERVAL)]_vars

\* a frame 50 ms after a processed one, on a valid video, has been skipped
C21_Witness ==
    /\ op = "detectPose"
    /\ args.videoValid
    /\ ret = FrameSkipped
    /\ lastProcessedTime >= StartTime
    /\ now - lastProcessedTime = 50


\* calculatePoseAccuracy has returned for a pose id with a profile
ProfileScored == op = "calculatePoseAccuracy" /\ ret.known

\* the angle entries of the profile the call was made for
ProfileAngles == POSE_CONFIGS[mapPoseId(args.poseType)]

\* point j of angle entry i, as found in the normalised list of the call
ProfilePoint(i, j) ==
    FindIncludes(normalizeKeypoints_ref(args.keypoints), ProfileAngles[i].joints[j])

\* the angle entries all three points of which are found with a score above 0.3
MeasuredAngles ==
    {i \in DOMAIN ProfileAngles : \A j \in 1..3 : Usable(ProfilePoint(i, j))}

\* the score of angle entry i
AngleScore(i) ==
    calculateAngleAccuracy(calculateAngle_ref(ProfilePoint(i, 1), ProfilePoint(i, 2),
                                              ProfilePoint(i, 3)),
                           ProfileAngles[i].target, ProfileAngles[i].tolerance)

\* the sum of f over the measured angle entries, in the order of the profile
MeasuredSum(f(_)) ==
    LET RECURSIVE Upto(_)
        Upto(i) ==
            IF i = 0 THEN 0
            ELSE IF i \in MeasuredAngles THEN FAdd(Upto(i - 1), f(i))
            ELSE Upto(i - 1)
    IN  Upto(Len(ProfileAngles))

WeightedScore(i) == FMul(AngleScore(i), ProfileAngles[i].weight)
WeightOf(i) == ProfileAngles[i].weight

\* C22: the raw accuracy of calculatePoseAccuracy is the weighted mean of the
\* scores of the measured joints only (sum of score * weight over the sum of
\* the weights); when no joint is measured the raw accuracy is 0 and the
\* feedback starts with the move-closer message.
C22_RawAccuracyIsWeightedMean ==
    ProfileScored =>
        IF MeasuredAngles = {}
        THEN /\ ret.rawAccuracy = 0
             /\ ret.feedback[1] = Msg("Move closer to the camera for better pose detection")
        ELSE ret.rawAccuracy = FDiv(MeasuredSum(WeightedScore), MeasuredSum(WeightOf))

\* one angle entry of two is measured, with a score strictly between 0 and 1,
\* and the raw accuracy is that score
C22_Witness ==
    /\ ProfileScored
    /\ Cardinality(MeasuredAngles) = 1
    /\ Len(ProfileAngles) = 2
    /\ \E i \in MeasuredAngles :
          /\ ret.rawAccuracy = AngleScore(i)
          /\ AngleScore(i) > 0
          /\ AngleScore(i) < Unit


\* the message of the band of a score, a score on a boundary taking the
\* message of the band below it
LowerBandMessage(score) ==
    IF score <= 30 * Unit THEN Msg("Focus on the basic alignment of the pose")
    ELSE IF score <= 60 * Unit THEN Msg("Keep adjusting to find better alignment")
    ELSE IF score <= 85 * Unit THEN Msg("Good form! Make small refinements")
    ELSE Msg("Excellent form! Maintain your stability")

BandMessages ==
    {LowerBandMessage(score * Unit) : score \in {30, 60, 85, 86}}

\* calculatePoseAccuracy has returned a finite score for a profile of which
\* at least half of the angle entries were measured
BandedResult ==
    /\ ProfileScored
    /\ 2 * ret.validAngles >= Len(ProfileAngles)
    /\ IsFinite(ret.accuracy)

\* C23: exactly one overall-banding message is in the feedback, at its front,
\* chosen by the final accuracy from the bands <30 / <60 / <85 / >=85; a score
\* exactly on a boundary (30, 60 or 85) gets the message of the lower band.
C23_BoundaryTakesLowerBand ==
    BandedResult =>
        /\ ret.feedback[1] = LowerBandMessage(ret.accuracy)
        /\ \A i \in DOMAIN ret.feedback : i > 1 => ret.feedback[i] \notin BandMessages


\* the overall messages of calculatePoseAccuracyWithFeedback
OverallMessages == {BandMessage(score * Unit) : score \in {80, 70, 60, 50, 0}}

CalledWhileStopped == ~pump.isRecording /\ op' = "detectPoseFrame"

\* C25: stopping the recording stops the engine: once the effect is cleaned
\* up no detectPose call is started any more, even when a call was in flight
\* at the moment of the stop.
C25_StopEndsInvocations == [][~CalledWhileStopped]_vars


\* the call was given the 17 standard keypoints, each with a score above 0.3
AllStandardPresent ==
    /\ Len(args.keypoints) = Len(StandardNames)
    /\ \A i \in DOMAIN args.keypoints :
          /\ args.keypoints[i].name = StandardNames[i]
          /\ args.keypoints[i].score > 300

\* C26: with all standard body keypoints present, each with a confidence
\* above 0.3, every angle entry of every profile of POSE_CONFIGS is measured:
\* validAngles is the number of angle entries and no move-closer message is
\* produced.
C26_FullBodyMeasuresEveryAngle ==
    (ProfileScored /\ AllStandardPresent) =>
        /\ ret.validAngles = Len(ProfileAngles)
        /\ \A i \in DOMAIN ret.feedback :
              ret.feedback[i].text \notin
                 {"Move closer to the camera for better pose detection",
                  "Move closer to the camera to detect alignment"}


\* C27: isStable is false whenever the score window holds fewer than W = 10
\* values, in every reachable state, also right after a session that had been
\* classified stable has ended and a new one is started.
C27_NotStableBeforeFull ==
    Len(page.confidenceHistory) < confidenceWindowSize => ~page.isStable

\* a session that was stable has just ended: the window is empty, isStable is
\* false and Start can be clicked again
C27_Witness ==
    /\ op = "handleEndSession"
    /\ args.isStable
    /\ page.confidenceHistory = <<>>
    /\ ~page.isStable
    /\ ~page.isSessionStarted


\* a detectPose call is made that scores no frame: the video is not valid,
\* the call comes too early after the last processed frame, or the detector
\* reports no pose
UnscoredCall ==
    /\ op' = "detectPose"
    /\ \/ ~args'.videoValid
       \/ now' - lastProcessedTime < PROCESS_INTERVAL
       \/ args'.detector.outcome = "none"

\* C28: a detectPose call that does not score a frame leaves the scoring
\* state as it was: keypointHistory and previousKeypoints are the same before
\* and after the call.
C28_UnscoredCallKeepsState ==
    [][UnscoredCall =>
         /\ keypointHistory' = keypointHistory
         /\ previousKeypoints' = previousKeypoints
         /\ ret' \in {FrameSkipped, NoPoseResult}]_vars

\* after a scored frame, a call on a valid video in which no pose is found
\* was past the rate guard and has left the history and the previous frame
C28_Witness ==
    /\ Processed
    /\ ret = NoPoseResult
    /\ keypointHistory # <<>>
    /\ previousKeypoints # Null


\* a detectPose call of a frame loop has just settled
CallSettled == op' = "detectionSettles"

\* a frame callback has got past the rate guard: a frame is processed
FrameProcessed == op = "detectPoseFrame" /\ args.due

Accuracies == {400, 800}
\* the updates of one session and the sessions ended that are looked at
MaxUpdates == 2
MaxSessions == 2

\* history.reduce((a, b) => a + b, 0) / history.length
HistoryMean(history) ==
    LET RECURSIVE Added(_, _)
        Added(i, a) == IF i > Len(history) THEN a ELSE Added(i + 1, FAdd(a, history[i]))
    IN  FDiv(Added(1, 0), Len(history) * Unit)

\* the updater of updateSessionAccuracy on an open session
WithAccuracy(prev, accuracy) ==
    [prev EXCEPT !.accuracyHistory = Append(@, accuracy),
                 !.averageAccuracy = HistoryMean(Append(prev.accuracyHistory, accuracy))]

\* endedSession: the final accuracy joins the history, and the average is
\* (prev.averageAccuracy + finalAccuracy) / 2
endedSession(prev, finalAccuracy) ==
    [prev EXCEPT !.active = FALSE,
                 !.accuracyHistory = Append(@, finalAccuracy),
                 !.averageAccuracy = FDiv(FAdd(prev.averageAccuracy, finalAccuracy), 2 * Unit)]

InitSession ==
    /\ op = "none"
    /\ args = NoArgs
    /\ ret = NoRet
    /\ EngineInit
    /\ PagesInit

\* startSession(poseId): a new session replaces the current one
StartSession ==
    /\ op' = "startSession"
    /\ args' = NoArgs
    /\ ret' = NoRet
    /\ practice' = [practice EXCEPT !.currentSession =
                       [active |-> TRUE, accuracyHistory |-> <<>>, averageAccuracy |-> 0]]
    /\ UNCHANGED <<engine, page, pump>>

\* updateSessionAccuracy(accuracy): nothing without a current session
UpdateSessionAccuracy ==
    \E accuracy \in Accuracies :
        /\ Len(practice.currentSession.accuracyHistory) < MaxUpdates
        /\ op' = "updateSessionAccuracy"
        /\ args' = [accuracy |-> accuracy]
        /\ ret' = NoRet
        /\ practice' = IF ~practice.currentSession.active THEN practice
                       ELSE [practice EXCEPT !.currentSession = WithAccuracy(@, accuracy)]
        /\ UNCHANGED <<engine, page, pump>>

\* endSession(finalAccuracy): nothing without a current session; else the
\* ended session is appended to sessions and the current session is cleared
EndSession ==
    \E finalAccuracy \in Accuracies :
        /\ Len(practice.sessions) < MaxSessions
        /\ op' = "endSession"
        /\ args' = [accuracy |-> finalAccuracy]
        /\ ret' = NoRet
        /\ practice' = IF ~practice.currentSession.active THEN practice
                       ELSE [currentSession |-> NoSession,
                             sessions |-> Append(practice.sessions,
                                                 endedSession(practice.currentSession,
                                                              finalAccuracy))]
        /\ UNCHANGED <<engine, page, pump>>

NextSession == StartSession \/ UpdateSessionAccuracy \/ EndSession

SpecSession == InitSession /\ [][NextSession]_vars

\* the arithmetic mean of a list of accuracies, 0 for the empty list
MeanOf(history) == IF history = <<>> THEN 0 ELSE HistoryMean(history)

\* C30: after any sequence of startSession, updateSessionAccuracy and
\* endSession calls every stored session, and the current session, has
\* averageAccuracy equal to the arithmetic mean of its accuracyHistory;
\* updateSessionAccuracy and endSession without a current session change
\* nothing, and an endSession with a current session appends exactly one
\* session and clears the current one.
C30_AverageIsMeanOfHistory ==
    /\ \A i \in DOMAIN practice.sessions :
          practice.sessions[i].averageAccuracy = MeanOf(practice.sessions[i].accuracyHistory)
    /\ practice.currentSession.averageAccuracy = MeanOf(practice.currentSession.accuracyHistory)

=============================================================================
